---- MODULE Spec2Model ----
(***************************************************************************)
(* SmartExpenseHub: the recommendation rules, the reconciliation pass      *)
(* (generateRecommendations) and the App handlers that mutate the expense  *)
(* records and the recommendation list.                                    *)
(*                                                                         *)
(* Representation.  A JavaScript string is a sequence of character codes   *)
(* (ASCII), so that toLowerCase, trim, includes, normalisation and edit    *)
(* distance are computed, not assumed.  Every "value" field of a record or *)
(* a recommendation is such a sequence; `undefined` is the one-element     *)
(* sequence Undefined, which is no string of the program.  A number with   *)
(* a fraction is kept exact: amounts are integers in tenths of a cent,     *)
(* similarities and confidences are pairs <<numerator, denominator>>.      *)
(***************************************************************************)
EXTENDS Integers, Sequences, FiniteSets, TLC

(***************************************************************************)
(* Bounds of the model.                                                    *)
(***************************************************************************)
\* ids (crypto.randomUUID) handed to expense records over one session
MaxTxId == 2
\* handler calls of one session
MaxSteps == 4
\* rows of one uploaded Expenses sheet
MaxUpload == 2
\* the rows of the sheet of a session with a merchant group of several names
MaxGroupRows == 3
\* the rows of a sheet of merchant names handed to the rules
MaxMerchantRows == 5
\* the rows of a sheet of categorised and uncategorised rows handed to the rules
MaxCategoryRows == 3

(***************************************************************************)
(* Strings.                                                                *)
(***************************************************************************)
Undefined == <<0 - 1>>
Empty == <<>>

RECURSIVE Concat(_)
\* the concatenation of a sequence of sequences (Array.push(...spread))
Concat(ss) == IF ss = <<>> THEN <<>> ELSE Head(ss) \o Concat(Tail(ss))

\* String.prototype.toLowerCase on ASCII
LowerChar(c) == IF c >= 65 /\ c =< 90 THEN c + 32 ELSE c
toLowerCase(s) == [i \in 1..Len(s) |-> LowerChar(s[i])]

\* white space as \s and trim() see it, on ASCII
IsSpace(c) == c \in {9, 10, 11, 12, 13, 32}

RECURSIVE TrimLeft(_)
TrimLeft(s) == IF s # <<>> /\ IsSpace(Head(s)) THEN TrimLeft(Tail(s)) ELSE s

RECURSIVE TrimRight(_)
TrimRight(s) ==
    IF s # <<>> /\ IsSpace(s[Len(s)]) THEN TrimRight(SubSeq(s, 1, Len(s) - 1)) ELSE s

\* String.prototype.trim
trim(s) == TrimRight(TrimLeft(s))

\* String.prototype.includes
includes(hay, needle) ==
    \E i \in 1..(Len(hay) - Len(needle) + 1) :
        SubSeq(hay, i, i + Len(needle) - 1) = needle

\* JavaScript truthiness of a string
Truthy(s) == s # <<>>

Max2(a, b) == IF a >= b THEN a ELSE b
Min2(a, b) == IF a =< b THEN a ELSE b
Abs(a) == IF a < 0 THEN 0 - a ELSE a

(***************************************************************************)
(* Exact fractions <<n, d>> with d > 0.                                    *)
(***************************************************************************)
Frac(n, d) == <<n, d>>
FracGt(x, y) == x[1] * y[2] > y[1] * x[2]
FracGe(x, y) == x[1] * y[2] >= y[1] * x[2]
FracEq(x, y) == x[1] * y[2] = y[1] * x[2]

(***************************************************************************)
(* constants.ts: KEYWORD_RULES                                             *)
(***************************************************************************)
KEYWORD_RULES == <<
    \* ['uber', 'lyft', 'taxi'] -> Travel / Ride Sharing
    [ keywords |-> << <<117, 98, 101, 114>>, <<108, 121, 102, 116>>, <<116, 97, 120, 105>> >>,
      type |-> <<84, 114, 97, 118, 101, 108>>,
      subtype |-> <<82, 105, 100, 101, 32, 83, 104, 97, 114, 105, 110, 103>> ],
    \* ['flight', 'airline', 'aa.com'] -> Travel / Flights
    [ keywords |-> << <<102, 108, 105, 103, 104, 116>>, <<97, 105, 114, 108, 105, 110, 101>>,
                      <<97, 97, 46, 99, 111, 109>> >>,
      type |-> <<84, 114, 97, 118, 101, 108>>,
      subtype |-> <<70, 108, 105, 103, 104, 116, 115>> ],
    \* ['coffee', 'starbucks', 'cafe'] -> Food / Coffee Shops
    [ keywords |-> << <<99, 111, 102, 102, 101, 101>>,
                      <<115, 116, 97, 114, 98, 117, 99, 107, 115>>, <<99, 97, 102, 101>> >>,
      type |-> <<70, 111, 111, 100>>,
      subtype |-> <<67, 111, 102, 102, 101, 101, 32, 83, 104, 111, 112, 115>> ],
    \* ['zomato', 'doordash', 'grubhub', 'uber eats'] -> Food / Delivery
    [ keywords |-> << <<122, 111, 109, 97, 116, 111>>, <<100, 111, 111, 114, 100, 97, 115, 104>>,
                      <<103, 114, 117, 98, 104, 117, 98>>,
                      <<117, 98, 101, 114, 32, 101, 97, 116, 115>> >>,
      type |-> <<70, 111, 111, 100>>,
      subtype |-> <<68, 101, 108, 105, 118, 101, 114, 121>> ],
    \* ['amazon', 'walmart', 'target'] -> Shopping / General Merchandise
    [ keywords |-> << <<97, 109, 97, 122, 111, 110>>, <<119, 97, 108, 109, 97, 114, 116>>,
                      <<116, 97, 114, 103, 101, 116>> >>,
      type |-> <<83, 104, 111, 112, 112, 105, 110, 103>>,
      subtype |-> <<71, 101, 110, 101, 114, 97, 108, 32, 77, 101, 114, 99, 104, 97, 110, 100,
                    105, 115, 101>> ],
    \* ['groceries', 'supermarket'] -> Food / Groceries
    [ keywords |-> << <<103, 114, 111, 99, 101, 114, 105, 101, 115>>,
                      <<115, 117, 112, 101, 114, 109, 97, 114, 107, 101, 116>> >>,
      type |-> <<70, 111, 111, 100>>,
      subtype |-> <<71, 114, 111, 99, 101, 114, 105, 101, 115>> ] >>

\* kw => paidToKey.includes(kw) || descriptionLower.includes(kw)
KeywordHit(kw, paidToKey, descriptionLower) ==
    includes(paidToKey, kw) \/ includes(descriptionLower, kw)

\* Array.prototype.find over a rule's keywords: index of the first hit, 0 if none
MatchedKeywordIndex(ruleDef, paidToKey, descriptionLower) ==
    LET hits == { k \in 1..Len(ruleDef.keywords) :
                    KeywordHit(ruleDef.keywords[k], paidToKey, descriptionLower) }
    IN  IF hits = {} THEN 0 ELSE CHOOSE k \in hits : \A h \in hits : k =< h

(***************************************************************************)
(* types.ts: TransactionRecord and Recommendation                          *)
(***************************************************************************)
\* RecommendationType
Duplicate == "DUPLICATE_TRANSACTION"
MerchantNormalization == "MERCHANT_NORMALIZATION"
MissingField == "MISSING_FIELD"
Classification == "CLASSIFICATION_SUGGESTION"

\* affectedField is absent (undefined) on a Duplicate recommendation
NoField == "undefined"

\* flags: {} as the normaliser and addTransaction create it (absent = false)
NoFlags ==
    [ isDuplicateCandidate |-> FALSE, isDeleted |-> FALSE, merchantNormalized |-> FALSE,
      categorySuggested |-> FALSE, fieldsFilled |-> FALSE ]

\* originalValues before any apply: no field snapshotted
NoOriginalValues ==
    [ paidTo |-> Undefined, expenseType |-> Undefined, expenseSubtype |-> Undefined,
      transactionType |-> Undefined ]

\* a TransactionRecord; rowNum 0 stands for an absent rowNum (both print 'N/A')
TransactionRecord(id, row, rowNum) ==
    [ id |-> id, dateOfPayment |-> row.dateOfPayment, paidTo |-> row.paidTo,
      amountPaid |-> row.amountPaid, expenseType |-> row.expenseType,
      expenseSubtype |-> row.expenseSubtype, description |-> row.description,
      transactionType |-> row.transactionType, originalValues |-> NoOriginalValues,
      flags |-> NoFlags, rowNum |-> rowNum ]

\* the description text of a recommendation: the template that produced it, the
\* strings and row numbers interpolated into it, and how many times
\* " (Original targets deleted)" was appended to it
Description(kind, strs, rows) ==
    [ kind |-> kind, strs |-> strs, rows |-> rows, targetsDeleted |-> 0 ]

\* a Recommendation as a rule creates it; id 0 is a randomUUID() not yet drawn
Recommendation(type, txIds, field, orig, sugg, conf, descr) ==
    [ id |-> 0, type |-> type, transactionIds |-> txIds, affectedField |-> field,
      originalValue |-> orig, suggestedValue |-> sugg, confidence |-> conf,
      description |-> descr, status |-> "pending" ]

\* the pair in the order given, unsorted
SortPairAsGiven(a, b) == <<a, b>>

\* Array.prototype.sort() of two ids; an id is a number standing for a UUID string
SortPair(a, b) == IF a =< b THEN <<a, b>> ELSE <<b, a>>

RECURSIVE SortIds(_)
\* [...ids].sort()
SortIds(ids) ==
    IF ids = <<>> THEN <<>>
    ELSE LET m == CHOOSE k \in 1..Len(ids) : \A j \in 1..Len(ids) : ids[k] =< ids[j]
         IN  <<ids[m]>> \o SortIds([j \in 1..(Len(ids) - 1) |->
                                        IF j < m THEN ids[j] ELSE ids[j + 1]])

\* Array.prototype.filter
RECURSIVE SelectSeqOf(_, _)
SelectSeqOf(s, keep) ==
    IF s = <<>> THEN <<>>
    ELSE (IF Head(s) \in keep THEN <<Head(s)>> ELSE <<>>) \o SelectSeqOf(Tail(s), keep)

Range(s) == { s[i] : i \in 1..Len(s) }

(***************************************************************************)
(* rules/duplicateRule.ts                                                  *)
(***************************************************************************)
\* simpleSimilarity, as an exact fraction
simpleSimilarity(s1, s2) ==
    LET longer == IF Len(s1) > Len(s2) THEN s1 ELSE s2
        shorter == IF Len(s1) > Len(s2) THEN s2 ELSE s1
        longerLower == toLowerCase(longer)
        shorterLower == toLowerCase(shorter)
        matchingChars ==
            Cardinality({ i \in 1..Len(shorterLower) :
                            includes(longerLower, <<shorterLower[i]>>) })
    IN  IF Len(longer) = 0 THEN Frac(1, 1)
        ELSE IF includes(longerLower, shorterLower) /\ Len(longer) - Len(shorter) < 5
             THEN Frac(4, 5)
             ELSE Frac(matchingChars, Len(longer))

\* Number.prototype.toFixed(2) of an amount kept in tenths of a cent: the cents
toFixed2(amount) == (amount + 5) \div 10

\* the bucket key without the amount
DuplicateKeyDateOnly(t) == <<t.dateOfPayment, 0>>

\* the bucket key `${t.dateOfPayment}_${t.amountPaid.toFixed(2)}`
DuplicateKey(t) == <<t.dateOfPayment, toFixed2(t.amountPaid)>>

\* the confidence ladder of one pair, in hundredths (0 = no recommendation)
DuplicateConfidence(t1, t2) ==
    LET paidToSimilarity == simpleSimilarity(t1.paidTo, t2.paidTo)
        descriptionSimilarity == simpleSimilarity(t1.description, t2.description)
        isPaidToSimilar == FracGt(paidToSimilarity, Frac(8, 10))
        isDescriptionSimilar == FracGt(descriptionSimilarity, Frac(7, 10))
    IN  IF isPaidToSimilar /\ isDescriptionSimilar THEN 90
        ELSE IF isPaidToSimilar /\ t1.description = t2.description THEN 95
        ELSE IF t1.paidTo = t2.paidTo /\ isDescriptionSimilar THEN 95
        ELSE IF isPaidToSimilar \/ isDescriptionSimilar THEN 75
        ELSE IF t1.paidTo = t2.paidTo /\ t1.description = t2.description THEN 100
        ELSE 0

\* 'Mark one for deletion or review.'
DuplicateAction ==
    <<77, 97, 114, 107, 32, 111, 110, 101, 32, 102, 111, 114, 32, 100, 101, 108, 101, 116,
      105, 111, 110, 32, 111, 114, 32, 114, 101, 118, 105, 101, 119, 46>>

\* the originalValue object { t1_paidTo, t1_desc, t2_paidTo, t2_desc } as one
\* string, its four members joined by the unit separator (no text holds it)
DuplicateOriginal(t1, t2) ==
    t1.paidTo \o <<31>> \o t1.description \o <<31>> \o t2.paidTo \o <<31>> \o t2.description

\* the recommendation pushed for the pair (t1, t2)
DuplicateRec(t1, t2) ==
    Recommendation(Duplicate, SortPair(t1.id, t2.id), NoField, DuplicateOriginal(t1, t2),
                   DuplicateAction, Frac(DuplicateConfidence(t1, t2), 100),
                   Description("duplicate", <<>>, <<t1.rowNum, t2.rowNum>>))

\* findDuplicateRecommendations: buckets in order of first member (Map insertion
\* order), pairs i < j inside a bucket; processedPairs never holds a pair that
\* comes up, the ids of a record list being distinct
findDuplicateRecommendations(transactions) ==
    LET live == SelectSeq(transactions, LAMBDA t : ~t.flags.isDeleted)
        n == Len(live)
        first(i) == CHOOSE g \in 1..n :
                        /\ DuplicateKey(live[g]) = DuplicateKey(live[i])
                        /\ \A h \in 1..n :
                              DuplicateKey(live[h]) = DuplicateKey(live[i]) => g =< h
        pair(g, i, j) ==
            IF /\ first(i) = g
               /\ i < j
               /\ DuplicateKey(live[i]) = DuplicateKey(live[j])
               /\ DuplicateConfidence(live[i], live[j]) >= 75
            THEN <<DuplicateRec(live[i], live[j])>>
            ELSE <<>>
    IN  Concat([g \in 1..n |->
            Concat([i \in 1..n |-> Concat([j \in 1..n |-> pair(g, i, j)])])])

(***************************************************************************)
(* rules/merchantRule.ts                                                   *)
(***************************************************************************)
\* [a-z0-9\s] on ASCII
IsAlnumOrSpace(c) == (c >= 97 /\ c =< 122) \/ (c >= 48 /\ c =< 57) \/ IsSpace(c)

RECURSIVE CollapseSpaces(_)
\* .replace(/\s+/g, ' ')
CollapseSpaces(s) ==
    IF s = <<>> THEN <<>>
    ELSE IF IsSpace(Head(s))
         THEN <<32>> \o CollapseSpaces(TrimLeft(s))
         ELSE <<Head(s)>> \o CollapseSpaces(Tail(s))

\* str.toLowerCase().replace(/[^a-z0-9\s]/g, '').replace(/\s+/g, ' ').trim()
normalize(str) ==
    trim(CollapseSpaces(SelectSeq(toLowerCase(str), IsAlnumOrSpace)))

RECURSIVE LevenshteinRows(_, _, _, _)
\* row i of the dp matrix from row i - 1, and on to the last row; dp[M][N]
LevenshteinRows(a, b, i, prev) ==
    IF i > Len(a) THEN prev[Len(b) + 1]
    ELSE LET cell[j \in 0..Len(b)] ==
                 IF j = 0 THEN i
                 ELSE Min2(Min2(prev[j + 1] + 1, cell[j - 1] + 1),
                           prev[j] + (IF a[i] = b[j] THEN 0 ELSE 1))
         IN  LevenshteinRows(a, b, i + 1, [j \in 1..(Len(b) + 1) |-> cell[j - 1]])

\* the distance dp[M][N] of the two loops that fill dp
Levenshtein(a, b) == LevenshteinRows(a, b, 1, [j \in 1..(Len(b) + 1) |-> j - 1])

\* areStringsSimilar(s1, s2, threshold), the threshold an exact fraction
areStringsSimilar(s1, s2, threshold) ==
    LET normS1 == normalize(s1)
        normS2 == normalize(s2)
        M == Len(normS1)
        N == Len(normS2)
        maxLength == Max2(M, N)
    IN  IF normS1 = normS2 THEN TRUE
        ELSE IF Abs(M - N) > 5 /\ 2 * Min2(M, N) < Max2(M, N) THEN FALSE
        ELSE IF maxLength = 0 THEN TRUE
        ELSE FracGe(Frac(maxLength - Levenshtein(normS1, normS2), maxLength), threshold)

RECURSIVE DistinctInOrder(_, _)
\* the members of a sequence in order of first occurrence (Set insertion order)
DistinctInOrder(s, seen) ==
    IF s = <<>> THEN <<>>
    ELSE IF Head(s) \in seen THEN DistinctInOrder(Tail(s), seen)
         ELSE <<Head(s)>> \o DistinctInOrder(Tail(s), seen \cup {Head(s)})

RECURSIVE StableSortDesc(_)
\* Array.prototype.sort((a, b) => b[2] - a[2]) of <<item, count>> pairs:
\* descending by count and stable
StableSortDesc(s) ==
    IF s = <<>> THEN <<>>
    ELSE LET m == CHOOSE k \in 1..Len(s) :
                      /\ \A j \in 1..Len(s) : s[k][2] >= s[j][2]
                      /\ \A j \in 1..(k - 1) : s[j][2] < s[k][2]
         IN  <<s[m]>> \o StableSortDesc([j \in 1..(Len(s) - 1) |->
                                            IF j < m THEN s[j] ELSE s[j + 1]])

\* the trimmed, non-empty paidTo of the records that are not deleted, in list order
MerchantNames(transactions) ==
    LET live == SelectSeq(transactions,
                          LAMBDA t : ~t.flags.isDeleted /\ Truthy(trim(t.paidTo)))
    IN  [i \in 1..Len(live) |-> trim(live[i].paidTo)]

\* merchantCounts[name]
MerchantCount(transactions, name) ==
    LET names == MerchantNames(transactions)
    IN  Cardinality({ i \in 1..Len(names) : names[i] = name })

\* sortedMerchants with the sort by count left out
SortedMerchantsUnsorted(transactions) ==
    DistinctInOrder(MerchantNames(transactions), {})

\* sortedMerchants
SortedMerchants(transactions) ==
    LET uniqueMerchants == DistinctInOrder(MerchantNames(transactions), {})
        sorted == StableSortDesc([i \in 1..Len(uniqueMerchants) |->
                      <<uniqueMerchants[i],
                        MerchantCount(transactions, uniqueMerchants[i])>>])
    IN  [i \in 1..Len(sorted) |-> sorted[i][1]]

\* canonicalMap is a sequence of <<variant, canonical>> in key insertion order
MapHas(map, k) == \E i \in 1..Len(map) : map[i][1] = k
MapGet(map, k) == map[CHOOSE i \in 1..Len(map) : map[i][1] = k][2]

RECURSIVE SweepForward(_, _, _)
\* the inner loop over sortedMerchants that maps unmapped similar names to a new
\* canonical
SweepForward(map, merchant, others) ==
    IF others = <<>> THEN map
    ELSE LET otherMerchant == Head(others)
         IN  IF /\ ~MapHas(map, otherMerchant)
                /\ merchant # otherMerchant
                /\ areStringsSimilar(merchant, otherMerchant, Frac(8, 10))
             THEN SweepForward(Append(map, <<otherMerchant, merchant>>), merchant,
                               Tail(others))
             ELSE SweepForward(map, merchant, Tail(others))

RECURSIVE ClusterMerchantsToKeys(_, _, _)
\* ClusterMerchants looking for a similar name among the keys of canonicalMap
\* instead of its values
ClusterMerchantsToKeys(map, todo, sortedMerchants) ==
    IF todo = <<>> THEN map
    ELSE LET merchant == Head(todo)
             existingCanonicals ==
                 DistinctInOrder([i \in 1..Len(map) |-> map[i][1]], {})
             similar == { k \in 1..Len(existingCanonicals) :
                            areStringsSimilar(merchant, existingCanonicals[k], Frac(8, 10)) }
         IN  IF MapHas(map, merchant)
             THEN ClusterMerchantsToKeys(map, Tail(todo), sortedMerchants)
             ELSE IF similar # {}
             THEN ClusterMerchantsToKeys(
                      Append(map, <<merchant,
                                    existingCanonicals[CHOOSE k \in similar :
                                                          \A h \in similar : k =< h]>>),
                      Tail(todo), sortedMerchants)
             ELSE ClusterMerchantsToKeys(
                      SweepForward(Append(map, <<merchant, merchant>>), merchant,
                                   sortedMerchants),
                      Tail(todo), sortedMerchants)

RECURSIVE ClusterMerchants(_, _, _)
\* the outer loop over sortedMerchants that builds canonicalMap
ClusterMerchants(map, todo, sortedMerchants) ==
    IF todo = <<>> THEN map
    ELSE LET merchant == Head(todo)
             existingCanonicals ==
                 DistinctInOrder([i \in 1..Len(map) |-> map[i][2]], {})
             similar == { k \in 1..Len(existingCanonicals) :
                            areStringsSimilar(merchant, existingCanonicals[k], Frac(8, 10)) }
         IN  IF MapHas(map, merchant)
             THEN ClusterMerchants(map, Tail(todo), sortedMerchants)
             ELSE IF similar # {}
             THEN ClusterMerchants(
                      Append(map, <<merchant,
                                    existingCanonicals[CHOOSE k \in similar :
                                                          \A h \in similar : k =< h]>>),
                      Tail(todo), sortedMerchants)
             ELSE ClusterMerchants(
                      SweepForward(Append(map, <<merchant, merchant>>), merchant,
                                   sortedMerchants),
                      Tail(todo), sortedMerchants)

\* canonicalMap after the clustering loop
CanonicalMap(transactions) ==
    LET sortedMerchants == SortedMerchants(transactions)
    IN  ClusterMerchants(<<>>, sortedMerchants, sortedMerchants)

\* Math.min(0.95, Math.max(0.5, 0.6 + similarityScore * 0.35))
MerchantConfidence(originalPaidTo, suggestedCanonical) ==
    LET normOriginal == normalize(originalPaidTo)
        normSuggested == normalize(suggestedCanonical)
        maxLength == Max2(Len(normOriginal), Len(normSuggested))
        distance == Levenshtein(normOriginal, normSuggested)
        \* similarityScore = 1 - distance / maxLength, or 1 when both are empty
        confidence ==
            IF maxLength > 0
            THEN Frac(60 * maxLength + 35 * (maxLength - distance), 100 * maxLength)
            ELSE Frac(95, 100)
    IN  IF FracGt(confidence, Frac(95, 100)) THEN Frac(95, 100)
        ELSE IF FracGt(Frac(50, 100), confidence) THEN Frac(50, 100)
        ELSE confidence

\* normalizeMerchantRecommendations
normalizeMerchantRecommendations(transactions) ==
    LET canonicalMap == CanonicalMap(transactions)
        rec(t) ==
            LET originalPaidTo == trim(t.paidTo)
            IN  IF /\ ~t.flags.isDeleted
                   /\ Truthy(originalPaidTo)
                   /\ MapHas(canonicalMap, originalPaidTo)
                   /\ MapGet(canonicalMap, originalPaidTo) # originalPaidTo
                THEN <<Recommendation(MerchantNormalization, <<t.id>>, "paidTo",
                           originalPaidTo, MapGet(canonicalMap, originalPaidTo),
                           MerchantConfidence(originalPaidTo,
                                              MapGet(canonicalMap, originalPaidTo)),
                           Description("merchant",
                               <<originalPaidTo, MapGet(canonicalMap, originalPaidTo)>>,
                               <<>>))>>
                ELSE <<>>
    IN  Concat([i \in 1..Len(transactions) |-> rec(transactions[i])])

(***************************************************************************)
(* rules/missingFieldRule.ts                                               *)
(***************************************************************************)
\* a frequency table { value: count } in key insertion order, built from the
\* values counted one after the other: a sequence of <<value, count>>
FrequencyMap(values) ==
    LET keys == DistinctInOrder(values, {})
    IN  [k \in 1..Len(keys) |->
            <<keys[k], Cardinality({ i \in 1..Len(values) : values[i] = keys[k] })>>]

\* getMostFrequent: Object.entries(freqMap).sort((a, b) => b[1] - a[1])[0][0],
\* Undefined standing for null
getMostFrequent(freqMap) ==
    IF freqMap = <<>> THEN Undefined ELSE StableSortDesc(freqMap)[1][1]

\* HistoryOf with the test of flags.isDeleted left out
HistoryOfWithDeleted(allTransactions, paidToKey) ==
    SelectSeq(allTransactions,
              LAMBDA t : /\ Truthy(toLowerCase(t.paidTo))
                         /\ toLowerCase(t.paidTo) = paidToKey)

\* the records that feed the frequency tables under one paidToKey
HistoryOf(allTransactions, paidToKey) ==
    SelectSeq(allTransactions,
              LAMBDA t : /\ ~t.flags.isDeleted
                         /\ Truthy(toLowerCase(t.paidTo))
                         /\ toLowerCase(t.paidTo) = paidToKey)

\* typeFrequency[paidToKey]
typeFrequency(allTransactions, paidToKey) ==
    LET h == SelectSeq(HistoryOf(allTransactions, paidToKey),
                       LAMBDA t : Truthy(t.expenseType))
    IN  FrequencyMap([i \in 1..Len(h) |-> h[i].expenseType])

\* subtypeFrequency[paidToKey][expenseType]
subtypeFrequency(allTransactions, paidToKey, expenseType) ==
    LET h == SelectSeq(HistoryOf(allTransactions, paidToKey),
                       LAMBDA t : /\ Truthy(t.expenseType) /\ Truthy(t.expenseSubtype)
                                  /\ t.expenseType = expenseType)
    IN  FrequencyMap([i \in 1..Len(h) |-> h[i].expenseSubtype])

\* transactionTypeFrequency[paidToKey]
transactionTypeFrequency(allTransactions, paidToKey) ==
    LET h == SelectSeq(HistoryOf(allTransactions, paidToKey),
                       LAMBDA t : Truthy(t.transactionType))
    IN  FrequencyMap([i \in 1..Len(h) |-> h[i].transactionType])

\* the first rule of KEYWORD_RULES among `among` with a keyword hit, 0 if none
FirstKeywordRule(paidToKey, descriptionLower, among) ==
    LET hits == { r \in among :
                    MatchedKeywordIndex(KEYWORD_RULES[r], paidToKey, descriptionLower) > 0 }
    IN  IF hits = {} THEN 0 ELSE CHOOSE r \in hits : \A h \in hits : r =< h

\* the keyword the description quotes for rule r
QuotedKeyword(r, paidToKey, descriptionLower) ==
    KEYWORD_RULES[r].keywords[MatchedKeywordIndex(KEYWORD_RULES[r], paidToKey,
                                                  descriptionLower)]

\* the Expense Type block of the forEach over transactionsToProcess
MissingExpenseType(t, allTransactions) ==
    LET paidToKey == toLowerCase(t.paidTo)
        descriptionLower == toLowerCase(t.description)
        historical ==
            IF Truthy(paidToKey) /\ typeFrequency(allTransactions, paidToKey) # <<>>
            THEN getMostFrequent(typeFrequency(allTransactions, paidToKey))
            ELSE Undefined
        r == FirstKeywordRule(paidToKey, descriptionLower, 1..Len(KEYWORD_RULES))
        \* rule.includes("keyword") holds exactly of the keyword text
        byKeyword == historical = Undefined /\ r > 0
        suggestion == IF historical # Undefined THEN historical
                      ELSE IF r > 0 THEN KEYWORD_RULES[r].type ELSE Undefined
    IN  IF ~Truthy(t.expenseType) /\ suggestion # Undefined
        THEN <<Recommendation(MissingField, <<t.id>>, "expenseType", t.expenseType,
                   suggestion, Frac(IF byKeyword THEN 80 ELSE 65, 100),
                   Description(IF byKeyword THEN "missing type by keyword"
                                            ELSE "missing type by history",
                       <<suggestion>> \o
                           (IF byKeyword
                            THEN <<QuotedKeyword(r, paidToKey, descriptionLower)>>
                            ELSE <<>>),
                       <<t.rowNum>>))>>
        ELSE <<>>

\* the Expense Subtype block
MissingExpenseSubtype(t, allTransactions) ==
    LET paidToKey == toLowerCase(t.paidTo)
        descriptionLower == toLowerCase(t.description)
        freq == subtypeFrequency(allTransactions, paidToKey, t.expenseType)
        historical == IF Truthy(paidToKey) /\ freq # <<>>
                      THEN getMostFrequent(freq) ELSE Undefined
        r == FirstKeywordRule(paidToKey, descriptionLower,
                 { k \in 1..Len(KEYWORD_RULES) : KEYWORD_RULES[k].type = t.expenseType })
        byKeyword == historical = Undefined /\ r > 0
        suggestion == IF historical # Undefined THEN historical
                      ELSE IF r > 0 THEN KEYWORD_RULES[r].subtype ELSE Undefined
    IN  IF Truthy(t.expenseType) /\ ~Truthy(t.expenseSubtype) /\ suggestion # Undefined
        THEN <<Recommendation(MissingField, <<t.id>>, "expenseSubtype", t.expenseSubtype,
                   suggestion, Frac(IF byKeyword THEN 75 ELSE 60, 100),
                   Description(IF byKeyword THEN "missing subtype by keyword"
                                            ELSE "missing subtype by history",
                       <<suggestion>> \o
                           (IF byKeyword
                            THEN <<QuotedKeyword(r, paidToKey, descriptionLower),
                                   t.expenseType>>
                            ELSE <<>>),
                       <<t.rowNum>>))>>
        ELSE <<>>

\* the Transaction Type block
MissingTransactionType(t, allTransactions) ==
    LET paidToKey == toLowerCase(t.paidTo)
        freq == transactionTypeFrequency(allTransactions, paidToKey)
        suggestion == IF Truthy(paidToKey) /\ freq # <<>>
                      THEN getMostFrequent(freq) ELSE Undefined
    IN  IF ~Truthy(t.transactionType) /\ suggestion # Undefined
        THEN <<Recommendation(MissingField, <<t.id>>, "transactionType",
                   t.transactionType, suggestion, Frac(60, 100),
                   Description("missing transaction type", <<suggestion, t.paidTo>>,
                               <<t.rowNum>>))>>
        ELSE <<>>

\* suggestMissingFieldRecommendations
suggestMissingFieldRecommendations(transactionsToProcess, allTransactions) ==
    Concat([i \in 1..Len(transactionsToProcess) |->
        LET t == transactionsToProcess[i]
        IN  IF t.flags.isDeleted THEN <<>>
            ELSE MissingExpenseType(t, allTransactions)
                 \o MissingExpenseSubtype(t, allTransactions)
                 \o MissingTransactionType(t, allTransactions)])

(***************************************************************************)
(* rules/classificationRule.ts                                             *)
(***************************************************************************)
\* paidToCategoryMap[paidToKey] after the sort by count: <<<<type, subtype>>, count>>
paidToCategoryMap(allTransactions, paidToKey) ==
    LET h == SelectSeq(allTransactions,
                 LAMBDA t : /\ ~t.flags.isDeleted /\ Truthy(t.paidTo)
                            /\ Truthy(t.expenseType) /\ Truthy(t.expenseSubtype)
                            /\ toLowerCase(t.paidTo) = paidToKey)
    IN  StableSortDesc(FrequencyMap([i \in 1..Len(h) |->
                                        <<h[i].expenseType, h[i].expenseSubtype>>]))

ClassificationRec(t, field, orig, sugg, conf, kind, strs) ==
    Recommendation(Classification, <<t.id>>, field, orig, sugg, Frac(conf, 100),
                   Description(kind, strs, <<t.rowNum>>))

\* Scenario 1: the keyword match
ClassifyByKeyword(t) ==
    LET paidToKey == toLowerCase(t.paidTo)
        descriptionLower == toLowerCase(t.description)
        r == FirstKeywordRule(paidToKey, descriptionLower, 1..Len(KEYWORD_RULES))
        kw == QuotedKeyword(r, paidToKey, descriptionLower)
        type == KEYWORD_RULES[r].type
        subtype == KEYWORD_RULES[r].subtype
    IN  IF r = 0 THEN <<>>
        ELSE IF ~(t.expenseType # type \/ t.expenseSubtype # subtype) THEN <<>>
        ELSE IF ~Truthy(t.expenseType)
        THEN << ClassificationRec(t, "expenseType", t.expenseType, type, 85,
                    "type by keyword", <<type, kw>>),
                ClassificationRec(t, "expenseSubtype", t.expenseSubtype, subtype, 80,
                    "subtype and type by keyword", <<subtype, type, kw>>) >>
        ELSE IF t.expenseType = type /\ t.expenseSubtype # subtype
                /\ ~Truthy(t.expenseSubtype)
        THEN << ClassificationRec(t, "expenseSubtype", t.expenseSubtype, subtype, 75,
                    "subtype by keyword", <<subtype, t.expenseType, kw>>) >>
        ELSE <<>>

\* Scenario 2: the most frequent past mapping of the merchant
ClassifyByHistory(t, allTransactions) ==
    LET paidToKey == toLowerCase(t.paidTo)
        ranked == paidToCategoryMap(allTransactions, paidToKey)
        topType == ranked[1][1][1]
        topSubtype == ranked[1][1][2]
    IN  IF ~(Truthy(paidToKey) /\ ranked # <<>>) THEN <<>>
        ELSE IF ~Truthy(t.expenseType) /\ ~Truthy(t.expenseSubtype)
        THEN << ClassificationRec(t, "expenseType", t.expenseType, topType, 70,
                    "type by history", <<topType, t.paidTo>>),
                ClassificationRec(t, "expenseSubtype", t.expenseSubtype, topSubtype, 65,
                    "subtype by history", <<topSubtype, t.paidTo>>) >>
        ELSE IF Truthy(t.expenseType) /\ ~Truthy(t.expenseSubtype)
                /\ topType = t.expenseType
        THEN << ClassificationRec(t, "expenseSubtype", t.expenseSubtype, topSubtype, 65,
                    "subtype for type by history",
                    <<topSubtype, t.expenseType, t.paidTo>>) >>
        ELSE <<>>

\* suggestClassificationRecommendations
suggestClassificationRecommendations(transactionsToProcess, allTransactions) ==
    Concat([i \in 1..Len(transactionsToProcess) |->
        LET t == transactionsToProcess[i]
        IN  IF t.flags.isDeleted THEN <<>>
            ELSE ClassifyByKeyword(t) \o ClassifyByHistory(t, allTransactions)])

(***************************************************************************)
(* services/recommendationService.ts                                       *)
(***************************************************************************)
IsTerminal(rec) == rec.status = "applied" \/ rec.status = "ignored"

\* getRecommendationIdentity with suggestedValue among the members of the tuple
getRecommendationIdentityWithSuggestion(rec) ==
    [ type |-> rec.type,
      transactionIdsString |-> SortIds(rec.transactionIds),
      affectedField |-> rec.affectedField,
      originalValue |->
          IF rec.type \in {MerchantNormalization, MissingField, Classification}
          THEN <<rec.originalValue, rec.suggestedValue>> ELSE Undefined ]

\* getRecommendationIdentity; JSON.stringify of it is one-to-one on these fields
getRecommendationIdentity(rec) ==
    [ type |-> rec.type,
      transactionIdsString |-> SortIds(rec.transactionIds),
      affectedField |-> rec.affectedField,
      originalValue |->
          IF rec.type \in {MerchantNormalization, MissingField, Classification}
          THEN rec.originalValue ELSE Undefined ]

\* CarryForward with the annotation appended whenever no target is left, also
\* when the recommendation had none
CarryForwardAnnotating(rec, existingTransactionIds) ==
    LET validTargetIds == SelectSeqOf(rec.transactionIds, existingTransactionIds)
    IN  IF Len(validTargetIds) = 0
        THEN [rec EXCEPT !.transactionIds = <<>>,
                         !.description.targetsDeleted = @ + 1]
        ELSE [rec EXCEPT !.transactionIds = validTargetIds]

\* CarryForward writing status 'applied' on the object it pushes
CarryForwardAsApplied(rec, existingTransactionIds) ==
    LET validTargetIds == SelectSeqOf(rec.transactionIds, existingTransactionIds)
    IN  IF Len(rec.transactionIds) > 0 /\ Len(validTargetIds) = 0
        THEN [rec EXCEPT !.transactionIds = <<>>, !.status = "applied",
                         !.description.targetsDeleted = @ + 1]
        ELSE [rec EXCEPT !.transactionIds = validTargetIds, !.status = "applied"]

\* step 1, the object pushed for one applied or ignored recommendation
CarryForward(rec, existingTransactionIds) ==
    LET validTargetIds == SelectSeqOf(rec.transactionIds, existingTransactionIds)
    IN  IF Len(rec.transactionIds) > 0 /\ Len(validTargetIds) = 0
        THEN [rec EXCEPT !.transactionIds = <<>>,
                         !.description.targetsDeleted = @ + 1]
        ELSE [rec EXCEPT !.transactionIds = validTargetIds]

\* PreservedRecommendations with the test of rec.status left out
PreservedRecommendationsAnyStatus(currentRecommendations, existingTransactionIds) ==
    [i \in 1..Len(currentRecommendations) |->
        CarryForward(currentRecommendations[i], existingTransactionIds)]

\* PreservedRecommendations with the test rec.status === 'applied' alone
PreservedRecommendationsAppliedOnly(currentRecommendations, existingTransactionIds) ==
    LET decided == SelectSeq(currentRecommendations, LAMBDA rec : rec.status = "applied")
    IN  [i \in 1..Len(decided) |-> CarryForward(decided[i], existingTransactionIds)]

\* step 1: outputRecommendations after the first forEach
PreservedRecommendations(currentRecommendations, existingTransactionIds) ==
    LET decided == SelectSeq(currentRecommendations, IsTerminal)
    IN  [i \in 1..Len(decided) |-> CarryForward(decided[i], existingTransactionIds)]

\* PreservedIdentities with processedIdentities.add(identityKey) left out
PreservedIdentitiesNone(currentRecommendations) == {}

\* step 1: processedIdentities after the first forEach (every decided
\* recommendation was pushed, so find() by its id succeeds)
PreservedIdentities(currentRecommendations) ==
    { getRecommendationIdentity(currentRecommendations[i]) :
        i \in { k \in 1..Len(currentRecommendations) :
                  IsTerminal(currentRecommendations[k]) } }

\* step 2: candidateRecsFromRules
CandidateRecsFromRules(transactionsFromState) ==
    LET activeTransactionsForRules ==
            SelectSeq(transactionsFromState, LAMBDA t : ~t.flags.isDeleted)
    IN  findDuplicateRecommendations(activeTransactionsForRules)
        \o normalizeMerchantRecommendations(activeTransactionsForRules)
        \o suggestMissingFieldRecommendations(activeTransactionsForRules,
                                              transactionsFromState)
        \o suggestClassificationRecommendations(activeTransactionsForRules,
                                                transactionsFromState)

\* step 3: existingPendingRecsMap.get(identity): the last pending recommendation
\* of the previous list with that identity (Map.set overwrites), 0 if none
ExistingPendingIndex(currentRecommendations, identity) ==
    LET hits == { k \in 1..Len(currentRecommendations) :
                    /\ currentRecommendations[k].status = "pending"
                    /\ getRecommendationIdentity(currentRecommendations[k]) = identity }
    IN  IF hits = {} THEN 0 ELSE CHOOSE k \in hits : \A h \in hits : h =< k

RECURSIVE MergeCandidatesKnownOnly(_, _, _, _, _)
\* MergeCandidates with the push of a truly new candidate left out
MergeCandidatesKnownOnly(candidates, currentRecommendations, output, processedIdentities, nextId) ==
    IF candidates = <<>> THEN [output |-> output, nextId |-> nextId]
    ELSE LET candidateRec == Head(candidates)
             candidateIdentityKey == getRecommendationIdentity(candidateRec)
             existing == ExistingPendingIndex(currentRecommendations,
                                              candidateIdentityKey)
         IN  IF candidateIdentityKey \notin processedIdentities /\ existing > 0
             THEN MergeCandidatesKnownOnly(Tail(candidates), currentRecommendations,
                      Append(output,
                             [candidateRec EXCEPT
                                 !.id = currentRecommendations[existing].id,
                                 !.status = "pending"]),
                      processedIdentities \cup {candidateIdentityKey}, nextId)
             ELSE MergeCandidatesKnownOnly(Tail(candidates), currentRecommendations,
                      output, processedIdentities, nextId)

RECURSIVE MergeCandidatesUnmarked(_, _, _, _, _)
\* MergeCandidates with processedIdentities.add(candidateIdentityKey) left out
MergeCandidatesUnmarked(candidates, currentRecommendations, output, processedIdentities, nextId) ==
    IF candidates = <<>> THEN [output |-> output, nextId |-> nextId]
    ELSE LET candidateRec == Head(candidates)
             candidateIdentityKey == getRecommendationIdentity(candidateRec)
             existing == ExistingPendingIndex(currentRecommendations,
                                              candidateIdentityKey)
         IN  IF candidateIdentityKey \in processedIdentities
             THEN MergeCandidatesUnmarked(Tail(candidates), currentRecommendations,
                                          output, processedIdentities, nextId)
             ELSE IF existing > 0
             THEN MergeCandidatesUnmarked(Tail(candidates), currentRecommendations,
                      Append(output,
                             [candidateRec EXCEPT
                                 !.id = currentRecommendations[existing].id,
                                 !.status = "pending"]),
                      processedIdentities, nextId)
             ELSE MergeCandidatesUnmarked(Tail(candidates), currentRecommendations,
                      Append(output, [candidateRec EXCEPT !.id = nextId]),
                      processedIdentities, nextId + 1)

RECURSIVE MergeCandidates(_, _, _, _, _)
\* step 3: the forEach over the candidates.  A candidate that is kept as new
\* carries its own randomUUID(): an id never seen before in the session, here
\* the least one (nextId); the ids of the other candidates reach no list.
MergeCandidates(candidates, currentRecommendations, output, processedIdentities, nextId) ==
    IF candidates = <<>> THEN [output |-> output, nextId |-> nextId]
    ELSE LET candidateRec == Head(candidates)
             candidateIdentityKey == getRecommendationIdentity(candidateRec)
             existing == ExistingPendingIndex(currentRecommendations,
                                              candidateIdentityKey)
         IN  IF candidateIdentityKey \in processedIdentities
             THEN MergeCandidates(Tail(candidates), currentRecommendations, output,
                                  processedIdentities, nextId)
             ELSE IF existing > 0
             THEN MergeCandidates(Tail(candidates), currentRecommendations,
                      Append(output,
                             [candidateRec EXCEPT
                                 !.id = currentRecommendations[existing].id,
                                 !.status = "pending"]),
                      processedIdentities \cup {candidateIdentityKey}, nextId)
             ELSE MergeCandidates(Tail(candidates), currentRecommendations,
                      Append(output, [candidateRec EXCEPT !.id = nextId]),
                      processedIdentities \cup {candidateIdentityKey}, nextId + 1)

\* step 4: whether the loop `continue`s past a recommendation of the output
IsPruned(rec, existingTransactionIds, softDeletedTransactionIds) ==
    LET ids == SelectSeqOf(rec.transactionIds, existingTransactionIds)
        allTargetsSoftDeleted ==
            Len(ids) > 0 /\ \A k \in 1..Len(ids) : ids[k] \in softDeletedTransactionIds
    IN  /\ rec.status = "pending"
        /\ \/ Len(ids) = 0 /\ Len(rec.transactionIds) > 0
           \/ rec.type # Duplicate /\ allTargetsSoftDeleted

RECURSIVE UniqueByIdLastWins(_, _)
\* step 5 with the test of the status of the entry in the map left out
UniqueByIdLastWins(recs, map) ==
    IF recs = <<>> THEN map
    ELSE LET currentRec == Head(recs)
             at == { k \in 1..Len(map) : map[k].id = currentRec.id }
             k == CHOOSE k \in at : TRUE
         IN  IF at = {} THEN UniqueByIdLastWins(Tail(recs), Append(map, currentRec))
             ELSE UniqueByIdLastWins(Tail(recs), [map EXCEPT ![k] = currentRec])

RECURSIVE UniqueById(_, _)
\* step 5: finalUniqueRecsById, a Map in key insertion order: an entry that is
\* applied or ignored is kept, a pending one is replaced in place
UniqueById(recs, map) ==
    IF recs = <<>> THEN map
    ELSE LET currentRec == Head(recs)
             at == { k \in 1..Len(map) : map[k].id = currentRec.id }
             k == CHOOSE k \in at : TRUE
         IN  IF at = {} THEN UniqueById(Tail(recs), Append(map, currentRec))
             ELSE IF IsTerminal(map[k]) THEN UniqueById(Tail(recs), map)
             ELSE UniqueById(Tail(recs), [map EXCEPT ![k] = currentRec])

\* steps 1 to 3: outputRecommendations before the final loop, and the next unused id
MergedRecommendations(transactionsFromState, currentRecommendations, nextId) ==
    LET existingTransactionIds == { transactionsFromState[i].id :
                                      i \in 1..Len(transactionsFromState) }
    IN  MergeCandidates(CandidateRecsFromRules(transactionsFromState),
            currentRecommendations,
            PreservedRecommendations(currentRecommendations, existingTransactionIds),
            PreservedIdentities(currentRecommendations), nextId)

\* steps 4 and 5 over outputRecommendations
FinalRecommendations(transactionsFromState, outputRecommendations) ==
    LET existingTransactionIds == { transactionsFromState[i].id :
                                      i \in 1..Len(transactionsFromState) }
        softDeletedTransactionIds ==
            { transactionsFromState[i].id :
                i \in { k \in 1..Len(transactionsFromState) :
                          transactionsFromState[k].flags.isDeleted } }
        kept == SelectSeq(outputRecommendations,
                    LAMBDA rec : ~IsPruned(rec, existingTransactionIds,
                                           softDeletedTransactionIds))
    IN  UniqueById([i \in 1..Len(kept) |->
                       [kept[i] EXCEPT !.transactionIds =
                           SelectSeqOf(@, existingTransactionIds)]], <<>>)

\* generateRecommendations(transactionsFromState, currentRecommendations)
generateRecommendations(transactionsFromState, currentRecommendations, nextId) ==
    FinalRecommendations(transactionsFromState,
        MergedRecommendations(transactionsFromState, currentRecommendations,
                              nextId).output)

\* the least id no recommendation has carried once the pass has run: a candidate
\* kept as new targets records that are not deleted, so it reaches the output
NextIdAfter(output, nextId) ==
    LET ids == { output[i].id : i \in 1..Len(output) } \cup {nextId - 1}
    IN  1 + CHOOSE m \in ids : \A k \in ids : k =< m

(***************************************************************************)
(* App.tsx: the state of the App component and its handlers                *)
(***************************************************************************)
VARIABLES
    transactions,        \* useState<TransactionRecord[]>: a sequence of records
    recommendations,     \* useState<Recommendation[]>: a sequence of recommendations
    rawExpenseFileName,  \* useState<string | null>: TRUE when a file name is set
    nextTxId,            \* the least record id randomUUID() has not handed out so far
    nextRecId,           \* the least recommendation id not handed out so far
    lastAction,          \* the handler that ran last, its argument, and whether
                         \* its effect called generateRecommendations
    previousRecommendations, \* the list the last call of generateRecommendations
                             \* was given as currentRecommendations
    steps                \* the number of handler calls so far

vars == <<transactions, recommendations, rawExpenseFileName, nextTxId, nextRecId,
          lastAction, previousRecommendations, steps>>

\* a record id as the text of a UUID: 8-4-4-4-12, the id's digit throughout
UuidText(id) == [k \in 1..36 |-> IF k \in {9, 14, 19, 24} THEN 45 ELSE 48 + id]

\* ApplyToTarget with the tests originalValues.<field> === undefined left out
ApplyToTargetOverwriting(t, recommendation) ==
    LET field == recommendation.affectedField
        overwrite(f, flag) ==
            [t EXCEPT !.originalValues[f] = t[f],
                      ![f] = recommendation.suggestedValue,
                      !.flags[flag] = TRUE]
    IN  IF recommendation.type = MerchantNormalization /\ field = "paidTo"
        THEN overwrite("paidTo", "merchantNormalized")
        ELSE IF recommendation.type = Classification /\ field # NoField
        THEN IF field \in {"expenseType", "expenseSubtype"}
             THEN overwrite(field, "categorySuggested")
             ELSE [t EXCEPT !.flags.categorySuggested = TRUE]
        ELSE IF recommendation.type = MissingField /\ field # NoField
        THEN IF field \in {"expenseType", "expenseSubtype", "transactionType"}
             THEN overwrite(field, "fieldsFilled")
             ELSE [t EXCEPT !.flags.fieldsFilled = TRUE]
        ELSE IF recommendation.type = Duplicate
        THEN [t EXCEPT !.flags.isDuplicateCandidate = TRUE,
                       !.flags.isDeleted =
                           \/ @
                           \/ recommendation.suggestedValue = <<100, 101, 108, 101, 116, 101>>
                           \/ includes(recommendation.suggestedValue, UuidText(t.id))]
        ELSE t

\* the body of prevTransactions.map(t => ...) for a target t of the recommendation
ApplyToTarget(t, recommendation) ==
    LET field == recommendation.affectedField
        snapshot(f) == IF t.originalValues[f] = Undefined THEN t[f]
                       ELSE t.originalValues[f]
        overwrite(f, flag) ==
            [t EXCEPT !.originalValues[f] = snapshot(f),
                      ![f] = recommendation.suggestedValue,
                      !.flags[flag] = TRUE]
    IN  IF recommendation.type = MerchantNormalization /\ field = "paidTo"
        THEN overwrite("paidTo", "merchantNormalized")
        ELSE IF recommendation.type = Classification /\ field # NoField
        THEN IF field \in {"expenseType", "expenseSubtype"}
             THEN overwrite(field, "categorySuggested")
             ELSE [t EXCEPT !.flags.categorySuggested = TRUE]
        ELSE IF recommendation.type = MissingField /\ field # NoField
        THEN IF field \in {"expenseType", "expenseSubtype", "transactionType"}
             THEN overwrite(field, "fieldsFilled")
             ELSE [t EXCEPT !.flags.fieldsFilled = TRUE]
        ELSE IF recommendation.type = Duplicate
        THEN [t EXCEPT !.flags.isDuplicateCandidate = TRUE,
                       !.flags.isDeleted =
                           \/ @
                           \/ recommendation.suggestedValue = <<100, 101, 108, 101, 116, 101>>
                           \/ includes(recommendation.suggestedValue, UuidText(t.id))]
        ELSE t

\* ApplyToTransactions with the test recommendation.transactionIds.includes(t.id)
\* left out
ApplyToTransactionsUntested(prevTransactions, recommendation) ==
    [i \in 1..Len(prevTransactions) |->
        ApplyToTarget(prevTransactions[i], recommendation)]

\* prevTransactions.map(t => recommendation.transactionIds.includes(t.id) ? ... : t)
ApplyToTransactions(prevTransactions, recommendation) ==
    [i \in 1..Len(prevTransactions) |->
        IF prevTransactions[i].id \in Range(recommendation.transactionIds)
        THEN ApplyToTarget(prevTransactions[i], recommendation)
        ELSE prevTransactions[i]]

\* the loop of applyMultipleRecommendations mapping prevTransactions in each
\* iteration instead of tempTransactions
ApplyAllFromSnapshot(tempTransactions, recsToApply) ==
    IF recsToApply = <<>> THEN tempTransactions
    ELSE ApplyToTransactions(tempTransactions, recsToApply[Len(recsToApply)])

RECURSIVE ApplyAll(_, _)
\* the for loop of applyMultipleRecommendations over recsToApply
ApplyAll(tempTransactions, recsToApply) ==
    IF recsToApply = <<>> THEN tempTransactions
    ELSE ApplyAll(ApplyToTransactions(tempTransactions, Head(recsToApply)),
                  Tail(recsToApply))

\* prevRecs.map(rec => ids.includes(rec.id) ? { ...rec, status } : rec)
SetStatus(prevRecs, ids, status) ==
    [i \in 1..Len(prevRecs) |->
        IF prevRecs[i].id \in ids THEN [prevRecs[i] EXCEPT !.status = status]
        ELSE prevRecs[i]]

\* the useEffect on [transactions, rawExpenseFileName], given the state the
\* render committed: the recommendation list it leaves, and whether it called
\* generateRecommendations
Effect(txs, recs, fileName, nextId) ==
    IF Len(txs) > 0 \/ (Len(txs) = 0 /\ fileName)
    THEN IF /\ Len(txs) > 0
            /\ ~(\E i \in 1..Len(txs) : ~txs[i].flags.isDeleted)
            /\ Len(recs) = 0
         THEN [recommendations |-> recs, pass |-> FALSE]
         ELSE [recommendations |-> generateRecommendations(txs, recs, nextId),
               pass |-> TRUE]
    ELSE [recommendations |-> <<>>, pass |-> FALSE]

\* a render that committed new transactions (or a new file name), and the effect
\* that runs after it, for the handler `name` called with `ids`
Commit(name, ids, newTransactions, newRecommendations, fileName) ==
    /\ steps < MaxSteps
    /\ \E txs \in {newTransactions} : \E recs \in {newRecommendations} :
       \E effect \in {Effect(txs, recs, fileName, nextRecId)} :
           /\ steps' = steps + 1
           /\ lastAction' = [name |-> name, ids |-> ids, pass |-> effect.pass]
           /\ previousRecommendations' =
                  IF effect.pass THEN recs ELSE previousRecommendations
           /\ transactions' = txs
           /\ rawExpenseFileName' = fileName
           /\ recommendations' = effect.recommendations
           /\ nextRecId' = NextIdAfter(effect.recommendations, nextRecId)

(***************************************************************************)
(* The rows a session enters: the cells of an uploaded Expenses sheet and   *)
(* the fields of the transaction form.                                     *)
(***************************************************************************)
Date1 == <<50, 48, 50, 52, 45, 48, 51, 45, 48, 49>>    \* '2024-03-01'
Date2 == <<50, 48, 50, 52, 45, 48, 51, 45, 48, 50>>    \* '2024-03-02'
Acme == <<65, 99, 109, 101>>                           \* 'Acme'
acme == <<97, 99, 109, 101>>                           \* 'acme'
acmePadded == <<97, 99, 109, 101, 32>>                 \* 'acme '
uber == <<117, 98, 101, 114>>                          \* 'uber'
Food == <<70, 111, 111, 100>>                          \* 'Food'
Groceries == <<71, 114, 111, 99, 101, 114, 105, 101, 115>>  \* 'Groceries'
Travel == <<84, 114, 97, 118, 101, 108>>               \* 'Travel'
Card == <<67, 97, 114, 100>>                           \* 'Card'

Row(date, paidTo, amount, type, subtype, description, transactionType) ==
    [ dateOfPayment |-> date, paidTo |-> paidTo, amountPaid |-> amount,
      expenseType |-> type, expenseSubtype |-> subtype, description |-> description,
      transactionType |-> transactionType ]

\* fully classified: the history of the merchant
RowClassified == Row(Date1, Acme, 4250, Food, Groceries, Empty, Card)
\* same day, same cents, the merchant in another case, nothing classified
RowBare == Row(Date1, acmePadded, 4254, Empty, Empty, Empty, Empty)
\* same day, same cents, the type known and the subtype missing
RowTyped == Row(Date1, acme, 4254, Food, Empty, Empty, Card)
\* a merchant of the keyword table, nothing classified
RowKeyword == Row(Date2, uber, 900, Empty, Empty, Empty, Card)
\* a merchant of the keyword table with its type
RowKeywordTyped == Row(Date2, uber, 900, Travel, Empty, Empty, Card)

\* the rows of an uploaded sheet
UploadRows == {RowClassified, RowBare, RowKeyword}

\* TransactionFormModal validate(): what the form lets through to onSave
validate(formData) ==
    /\ Truthy(formData.dateOfPayment)
    /\ Truthy(trim(formData.paidTo))
    /\ formData.amountPaid > 0
    /\ Truthy(trim(formData.expenseType))

\* the rows the transaction form is filled with
FormRows == { r \in {RowClassified, RowTyped, RowKeywordTyped, RowBare} : validate(r) }

\* the sheets of at most MaxUpload rows
Sheets == UNION { [1..n -> UploadRows] : n \in 0..MaxUpload }

(***************************************************************************)
(* What the views offer.                                                   *)
(***************************************************************************)
\* App.tsx: the list handed to DataTableView and RecommendationsView
VisibleRecommendations ==
    SelectSeq(recommendations,
        LAMBDA r : \A k \in 1..Len(r.transactionIds) :
            \E i \in 1..Len(transactions) :
                /\ transactions[i].id = r.transactionIds[k]
                /\ ~transactions[i].flags.isDeleted)

\* OfferedIds with the buttons rendered whatever the status
OfferedIdsAnyStatus ==
    { VisibleRecommendations[i].id : i \in 1..Len(VisibleRecommendations) }

\* the ids with Apply and Ignore buttons: RecommendationCard and the modal of
\* DataTableView render them for status === 'pending' only
OfferedIds ==
    { VisibleRecommendations[i].id :
        i \in { k \in 1..Len(VisibleRecommendations) :
                  VisibleRecommendations[k].status = "pending" } }

\* RecommendationsView: group.recommendationIds of the group of a canonical name
GroupIds(canonical) ==
    LET group == SelectSeq(VisibleRecommendations,
                     LAMBDA r : /\ r.type = MerchantNormalization
                                /\ r.status = "pending"
                                /\ r.suggestedValue = canonical)
    IN  [i \in 1..Len(group) |-> group[i].id]

\* the canonical names that have a group
GroupNames ==
    { VisibleRecommendations[i].suggestedValue :
        i \in { k \in 1..Len(VisibleRecommendations) :
                  /\ VisibleRecommendations[k].type = MerchantNormalization
                  /\ VisibleRecommendations[k].status = "pending" } }

\* globallyFilteredTransactions with no filter set: the rows DataTableView shows
ShownTxIds ==
    { transactions[i].id :
        i \in { k \in 1..Len(transactions) : ~transactions[k].flags.isDeleted } }

(***************************************************************************)
(* unnamed/part_002: processUploadedData                                   *)
(***************************************************************************)
\* the record made of the row at `index` (0-based) of the sheet; the sheets
\* carry no __rowNum__, so rowNum is index + 2
ProcessedRecord(rawRecord, index, id) ==
    TransactionRecord(id,
        [rawRecord EXCEPT !.paidTo = trim(@), !.expenseType = trim(@),
                          !.expenseSubtype = trim(@), !.description = trim(@),
                          !.transactionType = trim(@)],
        index + 2)

\* rawRecords.map(...): each row draws a randomUUID(), an id never seen before
\* in the session, here the least ones from firstId on
processUploadedData(rawRecords, firstId) ==
    [i \in 1..Len(rawRecords) |->
        ProcessedRecord(rawRecords[i], i - 1, firstId + i - 1)]

(***************************************************************************)
(* The session: the App component from its first render                    *)
(***************************************************************************)
NoAction == [name |-> "mount", ids |-> <<>>, pass |-> FALSE]

Init ==
    /\ transactions = <<>>
    /\ recommendations = <<>>
    /\ rawExpenseFileName = FALSE
    /\ nextTxId = 1
    /\ nextRecId = 1
    /\ lastAction = NoAction
    /\ previousRecommendations = <<>>
    /\ steps = 0

\* handleCombinedFileUpload: resetAllData(), then the Expenses sheet if it has rows
handleCombinedFileUpload ==
    \E sheet \in Sheets :
        /\ nextTxId + Len(sheet) =< MaxTxId + 1
        /\ nextTxId' = nextTxId + Len(sheet)
        /\ IF Len(sheet) > 0
           THEN Commit("handleCombinedFileUpload", <<>>,
                       processUploadedData(sheet, nextTxId), <<>>, TRUE)
           ELSE Commit("handleCombinedFileUpload", <<>>, <<>>, <<>>, FALSE)

\* addTransaction, called by the form with a validated row
addTransaction ==
    \E row \in FormRows :
        /\ nextTxId =< MaxTxId
        /\ nextTxId' = nextTxId + 1
        /\ Commit("addTransaction", <<nextTxId>>,
                  Append(transactions, TransactionRecord(nextTxId, row, 0)),
                  recommendations, rawExpenseFileName)

\* updateTransaction, called by the form with { ...existingTransaction, fields }
updateTransaction ==
    \E i \in 1..Len(transactions) : \E row \in FormRows :
        /\ transactions[i].id \in ShownTxIds
        /\ nextTxId' = nextTxId
        /\ Commit("updateTransaction", <<transactions[i].id>>,
                  [transactions EXCEPT ![i] =
                      [@ EXCEPT !.dateOfPayment = row.dateOfPayment,
                                !.paidTo = row.paidTo,
                                !.amountPaid = row.amountPaid,
                                !.expenseType = row.expenseType,
                                !.expenseSubtype = row.expenseSubtype,
                                !.description = row.description,
                                !.transactionType = row.transactionType]],
                  recommendations, rawExpenseFileName)

\* deleteTransaction with the test of the filter inverted: prev.filter(t => t.id === transactionId)
deleteTransactionInverted ==
    \E transactionId \in ShownTxIds :
        /\ nextTxId' = nextTxId
        /\ Commit("deleteTransaction", <<transactionId>>,
                  SelectSeq(transactions, LAMBDA t : t.id = transactionId),
                  recommendations, rawExpenseFileName)

\* deleteTransaction: prev.filter(t => t.id !== transactionId)
deleteTransaction ==
    \E transactionId \in ShownTxIds :
        /\ nextTxId' = nextTxId
        /\ Commit("deleteTransaction", <<transactionId>>,
                  SelectSeq(transactions, LAMBDA t : t.id # transactionId),
                  recommendations, rawExpenseFileName)

\* recommendations.find(rec => rec.id === recommendationId)
FindRecommendation(recommendationId) ==
    recommendations[CHOOSE k \in 1..Len(recommendations) :
        /\ recommendations[k].id = recommendationId
        /\ \A h \in 1..(k - 1) : recommendations[h].id # recommendationId]

\* applyRecommendation with the effect not run after it
applyRecommendationNoPass ==
    \E recommendationId \in OfferedIds :
        /\ steps < MaxSteps
        /\ steps' = steps + 1
        /\ transactions' =
               ApplyToTransactions(transactions, FindRecommendation(recommendationId))
        /\ recommendations' = SetStatus(recommendations, {recommendationId}, "applied")
        /\ lastAction' = [name |-> "applyRecommendation",
                          ids |-> <<recommendationId>>, pass |-> FALSE]
        /\ UNCHANGED <<rawExpenseFileName, nextTxId, nextRecId, previousRecommendations>>

\* applyRecommendation
applyRecommendation ==
    \E recommendationId \in OfferedIds :
        /\ nextTxId' = nextTxId
        /\ Commit("applyRecommendation", <<recommendationId>>,
                  ApplyToTransactions(transactions, FindRecommendation(recommendationId)),
                  SetStatus(recommendations, {recommendationId}, "applied"),
                  rawExpenseFileName)

\* ignoreRecommendation: sets recommendations only, so the effect does not run
ignoreRecommendation ==
    \E recommendationId \in OfferedIds :
        /\ steps < MaxSteps
        /\ steps' = steps + 1
        /\ recommendations' = SetStatus(recommendations, {recommendationId}, "ignored")
        /\ lastAction' = [name |-> "ignoreRecommendation", ids |-> <<recommendationId>>,
                          pass |-> FALSE]
        /\ UNCHANGED <<transactions, rawExpenseFileName, nextTxId, nextRecId,
                       previousRecommendations>>

\* applyMultipleRecommendations with the ids of a group of RecommendationsView
applyMultipleRecommendations ==
    \E canonical \in GroupNames :
        LET recommendationIds == GroupIds(canonical)
            recsToApply == SelectSeq(recommendations,
                               LAMBDA rec : /\ rec.id \in Range(recommendationIds)
                                            /\ rec.status = "pending")
        IN  /\ nextTxId' = nextTxId
            /\ Commit("applyMultipleRecommendations", recommendationIds,
                      ApplyAll(transactions, recsToApply),
                      SetStatus(recommendations, Range(recommendationIds), "applied"),
                      rawExpenseFileName)

\* ignoreMultipleRecommendations with the ids of a group of RecommendationsView
ignoreMultipleRecommendations ==
    \E canonical \in GroupNames :
        /\ steps < MaxSteps
        /\ steps' = steps + 1
        /\ recommendations' =
               SetStatus(recommendations, Range(GroupIds(canonical)), "ignored")
        /\ lastAction' = [name |-> "ignoreMultipleRecommendations",
                          ids |-> GroupIds(canonical), pass |-> FALSE]
        /\ UNCHANGED <<transactions, rawExpenseFileName, nextTxId, nextRecId,
                       previousRecommendations>>

Next ==
    \/ handleCombinedFileUpload
    \/ addTransaction
    \/ updateTransaction
    \/ deleteTransaction
    \/ applyRecommendation
    \/ ignoreRecommendation
    \/ applyMultipleRecommendations
    \/ ignoreMultipleRecommendations

Spec == Init /\ [][Next]_vars

(***************************************************************************)
(* The service and the handlers on inputs the views never produce: records  *)
(* whose flags.isDeleted a caller flips, and Duplicate recommendations      *)
(* whose suggestedValue is any of the tokens the Duplicate branch of the    *)
(* apply handlers tests for.                                                *)
(***************************************************************************)
\* the tokens of the test `suggestedValue === 'delete' || suggestedValue.includes(t.id)`
\* for records 1 and 2, and the token findDuplicateRecommendations writes
DuplicateTokens ==
    { DuplicateAction, <<100, 101, 108, 101, 116, 101>>, UuidText(1), UuidText(2) }

\* a list of recommendations with the Duplicate ones carrying the token
WithToken(recs, token) ==
    [i \in 1..Len(recs) |->
        IF recs[i].type = Duplicate THEN [recs[i] EXCEPT !.suggestedValue = token]
        ELSE recs[i]]

\* after the import of a sheet and its reconciliation
EngineInit ==
    \E sheet \in Sheets \ {<<>>} : \E token \in DuplicateTokens :
    \E txs \in {processUploadedData(sheet, 1)} :
    \E recs \in {generateRecommendations(txs, <<>>, 1)} :
        /\ transactions = txs
        /\ recommendations = WithToken(recs, token)
        /\ rawExpenseFileName = TRUE
        /\ nextTxId = Len(txs) + 1
        /\ nextRecId = NextIdAfter(recs, 1)
        /\ lastAction = NoAction
        /\ previousRecommendations = <<>>
        /\ steps = 1

\* the records with flags.isDeleted of the records `ids` set to `deleted`
SetDeleted(ids, deleted) ==
    [i \in 1..Len(transactions) |->
        IF transactions[i].id \in ids
        THEN [transactions[i] EXCEPT !.flags.isDeleted = deleted]
        ELSE transactions[i]]

\* a caller soft-deletes some records that are not deleted, in one setTransactions
softDeleteTransactions ==
    \E ids \in SUBSET ShownTxIds :
        /\ ids # {}
        /\ nextTxId' = nextTxId
        /\ Commit("softDeleteTransactions",
                  SelectSeqOf([i \in 1..Len(transactions) |-> transactions[i].id], ids),
                  SetDeleted(ids, TRUE),
                  recommendations, rawExpenseFileName)

\* a caller clears flags.isDeleted of one soft-deleted record
restoreTransaction ==
    \E i \in 1..Len(transactions) :
        /\ transactions[i].flags.isDeleted
        /\ nextTxId' = nextTxId
        /\ Commit("restoreTransaction", <<transactions[i].id>>,
                  SetDeleted({transactions[i].id}, FALSE),
                  recommendations, rawExpenseFileName)

EngineNext ==
    \/ softDeleteTransactions
    \/ restoreTransaction
    \/ deleteTransaction
    \/ applyRecommendation
    \/ ignoreRecommendation

EngineSpec == EngineInit /\ [][EngineNext]_vars

(***************************************************************************)
(* A session whose sheet spells one merchant in up to three ways, so that   *)
(* RecommendationsView shows a group with several recommendations.          *)
(***************************************************************************)
ACME == <<65, 67, 77, 69>>                             \* 'ACME'
\* a row of the same merchant in capitals
RowShout == Row(Date2, ACME, 4254, Food, Groceries, Empty, Card)

GroupRows == {RowClassified, RowTyped, RowShout}

\* after the import of a sheet and its reconciliation
GroupInit ==
    \E n \in 1..MaxGroupRows : \E sheet \in [1..n -> GroupRows] :
    \E txs \in {processUploadedData(sheet, 1)} :
    \E recs \in {generateRecommendations(txs, <<>>, 1)} :
        /\ transactions = txs
        /\ recommendations = recs
        /\ rawExpenseFileName = TRUE
        /\ nextTxId = Len(txs) + 1
        /\ nextRecId = NextIdAfter(recs, 1)
        /\ lastAction = NoAction
        /\ previousRecommendations = <<>>
        /\ steps = MaxSteps - 2

GroupNext ==
    \/ applyRecommendation
    \/ ignoreRecommendation
    \/ applyMultipleRecommendations
    \/ ignoreMultipleRecommendations

GroupSpec == GroupInit /\ [][GroupNext]_vars

(***************************************************************************)
(* The four rule modules and generateRecommendations as functions: the     *)
(* records are those of an imported sheet, one of them soft-deleted or     *)
(* none, and the previous list is one a first pass left, with one          *)
(* recommendation decided or none, or with two entries sharing an id.      *)
(***************************************************************************)
Shell == <<83, 104, 101, 108, 108>>                    \* 'Shell'
Shelf == <<83, 104, 101, 108, 102>>                    \* 'Shelf'
Shalf == <<83, 104, 97, 108, 102>>                     \* 'Shalf'

\* rows of three merchant names, each one edit away from the next
MerchantRows ==
    { Row(Date1, Shell, 1000, Food, Groceries, Empty, Card),
      Row(Date1, Shelf, 2000, Food, Groceries, Empty, Card),
      Row(Date1, Shalf, 3000, Food, Groceries, Empty, Card) }

\* a row with a keyword and a category that is not the keyword's
RowKeywordHistory == Row(Date2, uber, 900, Food, Groceries, Empty, Card)
\* rows without a counterparty
RowNameless == Row(Date2, Empty, 900, Empty, Empty, Empty, Card)
RowNamelessTyped == Row(Date2, Empty, 900, Food, Groceries, Empty, Card)

CategoryRows ==
    { RowKeyword, RowKeywordHistory, RowNameless, RowNamelessTyped, RowBare,
      RowClassified }

\* the records with the ids handed out the other way round: randomUUID gives
\* ids in no order, so the id of a later record may sort before an earlier one's
ReversedIds(txs) == [i \in 1..Len(txs) |-> [txs[i] EXCEPT !.id = Len(txs) + 1 - i]]

\* the record lists handed to the functions
RuleInputs ==
    { processUploadedData(sheet, 1) :
        sheet \in UNION { [1..n -> MerchantRows] : n \in 1..MaxMerchantRows } }
    \cup
    UNION { LET txs == processUploadedData(sheet, 1)
            IN  {txs} \cup { [txs EXCEPT ![i].flags.isDeleted = TRUE] :
                               i \in 1..Len(txs) } :
            sheet \in UNION { [1..n -> CategoryRows] : n \in 0..MaxCategoryRows } }
    \cup
    { ReversedIds(processUploadedData(sheet, 1)) : sheet \in [1..2 -> CategoryRows] }

\* the previous lists made from the list `first` a first pass left: first itself,
\* first with one recommendation applied or ignored, and first with that and
\* with a neighbour of it, still pending, carrying its id
PreviousLists(first) ==
    {<<>>, first}
    \cup { [first EXCEPT ![k].status = s] :
             k \in 1..Len(first), s \in {"applied", "ignored"} }
    \cup { [first EXCEPT ![k].status = s, ![j].id = first[k].id] :
             s \in {"applied", "ignored"},
             <<k, j>> \in { <<k, j>> \in (1..Len(first)) \X (1..Len(first)) :
                               j = k + 1 \/ j = k - 1 } }

RuleInit ==
    \E txs \in RuleInputs :
        /\ transactions = txs
        /\ recommendations = <<>>
        /\ rawExpenseFileName = TRUE
        /\ nextTxId = Len(txs) + 1
        /\ nextRecId = 1
        /\ lastAction = NoAction
        /\ previousRecommendations = <<>>
        /\ steps = 0

\* a call of one rule module as step 2 makes it, its result left in
\* recommendations; a behaviour is one call on one input
CallRule(name, result) ==
    /\ lastAction = NoAction
    /\ recommendations' = result
    /\ lastAction' = [name |-> name, ids |-> <<>>, pass |-> FALSE]
    /\ previousRecommendations' = <<>>
    /\ nextRecId' = 1
    /\ UNCHANGED <<transactions, rawExpenseFileName, nextTxId, steps>>

\* activeTransactionsForRules
ActiveTransactions == SelectSeq(transactions, LAMBDA t : ~t.flags.isDeleted)

callFindDuplicateRecommendations ==
    CallRule("findDuplicateRecommendations",
             findDuplicateRecommendations(ActiveTransactions))

callNormalizeMerchantRecommendations ==
    CallRule("normalizeMerchantRecommendations",
             normalizeMerchantRecommendations(ActiveTransactions))

callSuggestMissingFieldRecommendations ==
    CallRule("suggestMissingFieldRecommendations",
             suggestMissingFieldRecommendations(ActiveTransactions, transactions))

callSuggestClassificationRecommendations ==
    CallRule("suggestClassificationRecommendations",
             suggestClassificationRecommendations(ActiveTransactions, transactions))

\* a call of generateRecommendations with the records and a previous list
callGenerateRecommendations ==
    /\ lastAction = NoAction
    /\ \E first \in {generateRecommendations(transactions, <<>>, 1)} :
       \E previous \in PreviousLists(first) :
       \E output \in {generateRecommendations(transactions, previous,
                                               NextIdAfter(first, 1))} :
           /\ recommendations' = output
           /\ previousRecommendations' = previous
           /\ lastAction' = [name |-> "generateRecommendations", ids |-> <<>>,
                             pass |-> TRUE]
           /\ nextRecId' = NextIdAfter(output, NextIdAfter(first, 1))
           /\ UNCHANGED <<transactions, rawExpenseFileName, nextTxId, steps>>

RuleNext ==
    \/ callFindDuplicateRecommendations
    \/ callNormalizeMerchantRecommendations
    \/ callSuggestMissingFieldRecommendations
    \/ callSuggestClassificationRecommendations
    \/ callGenerateRecommendations

RuleSpec == RuleInit /\ [][RuleNext]_vars

(***************************************************************************)
(* Properties                                                              *)
(***************************************************************************)
\* the ids of the records of the current list
ExistingTransactionIds == { transactions[i].id : i \in 1..Len(transactions) }

\* the recommendations of a list as a set
RecsOf(list) == { list[i] : i \in 1..Len(list) }

\* C1: reconciliation is idempotent on an unchanged record set.  For the records
\* R and the list P of any state, generateRecommendations(R, generateRecommendations(R, P))
\* is generateRecommendations(R, P): same ids, statuses, transactionIds and content,
\* in the same order; and the list a pass has just left is what a second pass on
\* the same records returns.
C1_Idempotent ==
    /\ \A once \in {generateRecommendations(transactions, recommendations, nextRecId)} :
           generateRecommendations(transactions, once, NextIdAfter(once, nextRecId)) = once
    /\ lastAction.pass =>
           generateRecommendations(transactions, recommendations, nextRecId)
               = recommendations

\* a pass has just run that annotated a decided recommendation whose targets are
\* all gone and that left pending recommendations besides it
C1_Witness ==
    /\ lastAction.pass
    /\ \E r \in RecsOf(recommendations) :
           IsTerminal(r) /\ r.transactionIds = <<>> /\ r.description.targetsDeleted = 1
    /\ \E r \in RecsOf(recommendations) : r.status = "pending"

\* C2: a decided recommendation is never resurrected.  After every pass, for every
\* recommendation that was applied or ignored in the list the pass was given and
\* whose targets all still exist, the output holds no pending recommendation with
\* the same identity (type, sorted transactionIds, affectedField, and originalValue
\* for the types other than Duplicate).
C2_NeverResurrected ==
    lastAction.pass =>
        \A r \in RecsOf(previousRecommendations) :
            (IsTerminal(r) /\ Range(r.transactionIds) \subseteq ExistingTransactionIds)
            => ~\E q \in RecsOf(recommendations) :
                   /\ q.status = "pending"
                   /\ getRecommendationIdentity(q) = getRecommendationIdentity(r)

\* a pass has just run in which a rule proposed again what the user had decided
C2_Witness ==
    /\ lastAction.pass
    /\ \E r \in RecsOf(previousRecommendations) :
           /\ IsTerminal(r)
           /\ Range(r.transactionIds) \subseteq ExistingTransactionIds
           /\ \E c \in RecsOf(CandidateRecsFromRules(transactions)) :
                  getRecommendationIdentity(c) = getRecommendationIdentity(r)

\* C3: hard-delete pruning.  Once deleteTransaction has removed a record and the
\* effect has run, no pending recommendation names the removed id and no pending
\* recommendation has an empty transactionIds.
C3_HardDeletePruning ==
    lastAction.name = "deleteTransaction" =>
        \A r \in RecsOf(recommendations) :
            r.status = "pending" =>
                /\ lastAction.ids[1] \notin Range(r.transactionIds)
                /\ Len(r.transactionIds) > 0

\* deleteTransaction has just removed a record that a pending recommendation named
C3_Witness ==
    /\ lastAction.name = "deleteTransaction"
    /\ lastAction.pass
    /\ \E r \in RecsOf(previousRecommendations) :
           r.status = "pending" /\ lastAction.ids[1] \in Range(r.transactionIds)

\* the record with an id, of the current list
RecordOf(id) == transactions[CHOOSE i \in 1..Len(transactions) : transactions[i].id = id]

\* the ids of the records of the current list that are soft-deleted
SoftDeletedTransactionIds ==
    { transactions[i].id :
        i \in { k \in 1..Len(transactions) : transactions[k].flags.isDeleted } }

\* C4: the soft-delete moot rule for the types other than Duplicate.  After every
\* pass no pending MissingField, MerchantNormalization or Classification
\* recommendation targets a record whose flags.isDeleted is set; and once
\* flags.isDeleted of a record is cleared and the pass has run, every
\* recommendation the rules propose for that record, unless its identity was
\* decided before, is in the list as pending.
C4_SoftDeleteMoot ==
    lastAction.pass =>
        /\ \A r \in RecsOf(recommendations) :
               (r.status = "pending" /\ r.type # Duplicate)
               => Range(r.transactionIds) \cap SoftDeletedTransactionIds = {}
        /\ lastAction.name = "restoreTransaction" =>
               \A c \in RecsOf(CandidateRecsFromRules(transactions)) :
                   (/\ lastAction.ids[1] \in Range(c.transactionIds)
                    /\ getRecommendationIdentity(c)
                           \notin PreservedIdentities(previousRecommendations))
                   => \E q \in RecsOf(recommendations) :
                          /\ q.status = "pending"
                          /\ getRecommendationIdentity(q) = getRecommendationIdentity(c)

\* flags.isDeleted of a record has just been cleared: the list held no
\* MissingField recommendation for the record while it was soft-deleted, and
\* holds a pending one now
C4_Witness ==
    /\ lastAction.name = "restoreTransaction"
    /\ lastAction.pass
    /\ ~\E r \in RecsOf(previousRecommendations) :
           r.type = MissingField /\ lastAction.ids[1] \in Range(r.transactionIds)
    /\ \E q \in RecsOf(recommendations) :
           /\ q.type = MissingField
           /\ q.status = "pending"
           /\ q.transactionIds = <<lastAction.ids[1]>>

\* C5: the soft-delete moot rule for Duplicate.  A pending Duplicate
\* recommendation of the list a pass was given, whose two target records are both
\* in the record list with flags.isDeleted set, is in the output of the pass,
\* pending, with its id.
C5_DuplicateRetained ==
    lastAction.pass =>
        \A r \in RecsOf(previousRecommendations) :
            (/\ r.status = "pending"
             /\ r.type = Duplicate
             /\ Len(r.transactionIds) = 2
             /\ Range(r.transactionIds) \subseteq SoftDeletedTransactionIds)
            => \E q \in RecsOf(recommendations) :
                   q.id = r.id /\ q.status = "pending" /\ q.type = Duplicate

\* C6: the status of a recommendation is terminal once applied or ignored.  In
\* every step, a recommendation id that is in the list before and after keeps its
\* status or goes from pending to applied or from pending to ignored.
C6_StatusTerminal ==
    [][\A r \in RecsOf(recommendations) : \A q \in RecsOf(recommendations') :
           q.id = r.id =>
               \/ q.status = r.status
               \/ r.status = "pending" /\ q.status \in {"applied", "ignored"}]_vars

\* applyRecommendation and its pass have just run over a list that held an ignored
\* recommendation, which is still ignored
C6_Witness ==
    /\ lastAction.name = "applyRecommendation"
    /\ lastAction.pass
    /\ \E r \in RecsOf(previousRecommendations) : \E q \in RecsOf(recommendations) :
           r.status = "ignored" /\ q.id = r.id /\ q.status = "ignored"

\* C7: terminal recommendations are carried forward by a pass.  Every applied or
\* ignored recommendation of the list the pass was given is in the output with
\* the same id, status, type, affectedField, originalValue and suggestedValue;
\* its transactionIds are the previous ones filtered to the ids of the records
\* that exist (soft-deleted records keep their ids); if it had targets and none
\* remain, its transactionIds are empty and its description is the previous one
\* with the annotation appended, and otherwise its description is the previous one.
C7_TerminalCarried ==
    lastAction.pass =>
        \A r \in RecsOf(previousRecommendations) :
            IsTerminal(r) =>
                \E q \in RecsOf(recommendations) :
                    /\ q.id = r.id
                    /\ q.status = r.status
                    /\ q.type = r.type
                    /\ q.affectedField = r.affectedField
                    /\ q.originalValue = r.originalValue
                    /\ q.suggestedValue = r.suggestedValue
                    /\ q.transactionIds =
                           SelectSeq(r.transactionIds,
                                     LAMBDA txId : txId \in ExistingTransactionIds)
                    /\ q.description =
                           IF /\ Len(r.transactionIds) > 0
                              /\ Range(r.transactionIds) \cap ExistingTransactionIds = {}
                           THEN [r.description EXCEPT !.targetsDeleted = @ + 1]
                           ELSE r.description

\* a pass has just run over a list with a terminal recommendation none of whose
\* targets exists any more, and with a terminal recommendation whose target is
\* soft-deleted
C7_Witness ==
    /\ lastAction.pass
    /\ \E r \in RecsOf(previousRecommendations) :
           /\ IsTerminal(r)
           /\ Len(r.transactionIds) > 0
           /\ Range(r.transactionIds) \cap ExistingTransactionIds = {}
    /\ \E r \in RecsOf(previousRecommendations) :
           /\ IsTerminal(r)
           /\ Range(r.transactionIds) \cap SoftDeletedTransactionIds # {}

\* C8: applied and ignored history survives the session.  In every step other
\* than a new import, every applied or ignored recommendation of the list is
\* still in the list after the step, with the same status.
C8_HistorySurvives ==
    [][lastAction'.name # "handleCombinedFileUpload" =>
           \A r \in RecsOf(recommendations) :
               IsTerminal(r) =>
                   \E q \in RecsOf(recommendations') :
                       q.id = r.id /\ q.status = r.status]_vars

\* C9: applying captures the original value of a field exactly once.  In every
\* step, for every record and every field: a captured originalValues entry does
\* not change, and an entry captured in the step is the value the field had
\* before the step; and applyRecommendation on a MerchantNormalization
\* recommendation leaves each target with flags.merchantNormalized, with paidTo
\* the suggested name, and with originalValues.paidTo the paidTo before the step
\* unless one was captured before.
C9_CapturedOnce ==
    [][/\ \A t \in Range(transactions) : \A u \in Range(transactions') :
              u.id = t.id =>
                  \A f \in DOMAIN NoOriginalValues :
                      /\ t.originalValues[f] # Undefined
                             => u.originalValues[f] = t.originalValues[f]
                      /\ (t.originalValues[f] = Undefined
                              /\ u.originalValues[f] # Undefined)
                             => u.originalValues[f] = t[f]
       /\ (/\ lastAction'.name = "applyRecommendation"
           /\ FindRecommendation(lastAction'.ids[1]).type = MerchantNormalization)
          => \A t \in Range(transactions) :
                 t.id \in Range(FindRecommendation(lastAction'.ids[1]).transactionIds)
                 => \E u \in Range(transactions') :
                        /\ u.id = t.id
                        /\ u.flags.merchantNormalized
                        /\ u.paidTo = FindRecommendation(lastAction'.ids[1]).suggestedValue
                        /\ u.originalValues.paidTo =
                               IF t.originalValues.paidTo = Undefined THEN t.paidTo
                               ELSE t.originalValues.paidTo]_vars

\* applyRecommendation has just applied a MerchantNormalization recommendation to
\* a record whose paidTo had been captured by an earlier apply: the captured name
\* is not the name this recommendation replaced
C9_Witness ==
    /\ lastAction.name = "applyRecommendation"
    /\ \E r \in RecsOf(recommendations) : \E t \in Range(transactions) :
           /\ r.id = lastAction.ids[1]
           /\ r.type = MerchantNormalization
           /\ r.status = "applied"
           /\ t.id \in Range(r.transactionIds)
           /\ t.flags.merchantNormalized
           /\ t.originalValues.paidTo # Undefined
           /\ t.originalValues.paidTo # r.originalValue

\* the suggestedValue of a Duplicate recommendation indicates deletion: the test
\* of the apply handlers, for some target
IndicatesDeletion(r) ==
    \/ r.suggestedValue = <<100, 101, 108, 101, 116, 101>>
    \/ \E id \in Range(r.transactionIds) : includes(r.suggestedValue, UuidText(id))

C11_ApplyReconciles ==
    [][lastAction'.name = "applyRecommendation" =>
           /\ transactions' =
                  ApplyToTransactions(transactions, FindRecommendation(lastAction'.ids[1]))
           /\ recommendations' =
                  generateRecommendations(
                      transactions',
                      SetStatus(recommendations, {lastAction'.ids[1]}, "applied"),
                      nextRecId)]_vars

\* applyRecommendation has just run and its pass returned a list that is not the
\* list it was given: it dropped or added a recommendation
C11_Witness ==
    /\ lastAction.name = "applyRecommendation"
    /\ lastAction.pass
    /\ RecsOf(recommendations) # RecsOf(previousRecommendations)

\* C12: ignore triggers reconciliation.  A step of ignoreRecommendation or of
\* ignoreMultipleRecommendations leaves the recommendation list equal to
\* generateRecommendations of the records and of the list before the step with
\* the status of the ignored recommendations set to ignored.
C12_IgnoreReconciles ==
    [][lastAction'.name \in {"ignoreRecommendation", "ignoreMultipleRecommendations"} =>
           recommendations' =
               generateRecommendations(
                   transactions',
                   SetStatus(recommendations, Range(lastAction'.ids), "ignored"),
                   nextRecId)]_vars

RECURSIVE SequentialApply(_, _)
\* the single-item apply mutation for each id of a list in turn, each on the
\* records the one before left
SequentialApply(txs, ids) ==
    IF ids = <<>> THEN txs
    ELSE SequentialApply(ApplyToTransactions(txs, FindRecommendation(Head(ids))),
                         Tail(ids))

ActiveCount(name) ==
    Cardinality({ i \in 1..Len(transactions) :
                    /\ ~transactions[i].flags.isDeleted
                    /\ trim(transactions[i].paidTo) = name })

\* two names are similar at the threshold of the merchant rule
SimilarNames(a, b) == areStringsSimilar(a, b, Frac(8, 10))

\* an active record has a MerchantNormalization recommendation (to a name)
NormalizedTo(t, name) ==
    \E r \in RecsOf(recommendations) :
        /\ r.type = MerchantNormalization
        /\ r.transactionIds = <<t.id>>
        /\ r.suggestedValue = name

\* C14 as stated: merchant normalization always points to the higher-frequency
\* name.  In the output of normalizeMerchantRecommendations the suggestedValue of
\* every recommendation occurs among the active records at least as often as its
\* originalValue, and whenever two names of active records are similar (0.8) and
\* differ in count, every record carrying the less frequent name is recommended
\* to normalize to the more frequent one.
C14_HigherFrequency ==
    lastAction.name = "normalizeMerchantRecommendations" =>
        /\ \A r \in RecsOf(recommendations) :
               ActiveCount(r.suggestedValue) >= ActiveCount(r.originalValue)
        /\ \A t \in Range(ActiveTransactions) : \A u \in Range(ActiveTransactions) :
               (/\ SimilarNames(trim(t.paidTo), trim(u.paidTo))
                /\ ActiveCount(trim(t.paidTo)) < ActiveCount(trim(u.paidTo)))
               => NormalizedTo(t, trim(u.paidTo))

\* C14 amended: in the output of normalizeMerchantRecommendations the
\* suggestedValue of every recommendation is similar (0.8) to its originalValue
\* and occurs among the active records at least as often; and whenever two names
\* of active records are similar and differ in count, and the more frequent one
\* is not itself recommended for normalization, every record carrying the less
\* frequent name is recommended to normalize to a name similar to its own that
\* occurs at least as often as the more frequent one.
C14_HigherFrequencyCanonical ==
    lastAction.name = "normalizeMerchantRecommendations" =>
        /\ \A r \in RecsOf(recommendations) :
               /\ ActiveCount(r.suggestedValue) >= ActiveCount(r.originalValue)
               /\ SimilarNames(r.originalValue, r.suggestedValue)
        /\ \A t \in Range(ActiveTransactions) : \A u \in Range(ActiveTransactions) :
               (/\ SimilarNames(trim(t.paidTo), trim(u.paidTo))
                /\ ActiveCount(trim(t.paidTo)) < ActiveCount(trim(u.paidTo))
                /\ ~\E r \in RecsOf(recommendations) : r.transactionIds = <<u.id>>)
               => \E r \in RecsOf(recommendations) :
                      /\ r.type = MerchantNormalization
                      /\ r.transactionIds = <<t.id>>
                      /\ SimilarNames(trim(t.paidTo), r.suggestedValue)
                      /\ ActiveCount(r.suggestedValue) >= ActiveCount(trim(u.paidTo))

\* normalizeMerchantRecommendations has run on records of three names: one is
\* normalized to a name at least as frequent, and one keeps its name although a
\* similar name, itself normalized to another, is more frequent
C14_Witness ==
    /\ lastAction.name = "normalizeMerchantRecommendations"
    /\ \E t \in Range(ActiveTransactions) : \E u \in Range(ActiveTransactions) :
           /\ ActiveCount(trim(t.paidTo)) =< ActiveCount(trim(u.paidTo))
           /\ NormalizedTo(t, trim(u.paidTo))
    /\ \E t \in Range(ActiveTransactions) : \E u \in Range(ActiveTransactions) :
           /\ SimilarNames(trim(t.paidTo), trim(u.paidTo))
           /\ ActiveCount(trim(t.paidTo)) < ActiveCount(trim(u.paidTo))
           /\ ~\E r \in RecsOf(recommendations) : r.transactionIds = <<t.id>>
           /\ \E r \in RecsOf(recommendations) : r.transactionIds = <<u.id>>

\* the records that are not deleted, have a category, and have the lowercased
\* counterparty of a record
CategoryHistory(t) ==
    { u \in Range(transactions) :
        /\ ~u.flags.isDeleted
        /\ toLowerCase(u.paidTo) = toLowerCase(t.paidTo)
        /\ u.expenseType # Empty }

\* the most frequent categories of that history
MostFrequentCategories(t) ==
    LET count(v) == Cardinality({ u \in CategoryHistory(t) : u.expenseType = v })
    IN  { u.expenseType : u \in { u \in CategoryHistory(t) :
            \A w \in CategoryHistory(t) : count(w.expenseType) =< count(u.expenseType) } }

\* the rules of the keyword table with a keyword in the counterparty or in the
\* description of a record, case-insensitively
MatchingKeywordRules(t) ==
    { k \in 1..Len(KEYWORD_RULES) :
        \E kw \in Range(KEYWORD_RULES[k].keywords) :
            \/ includes(toLowerCase(t.paidTo), kw)
            \/ includes(toLowerCase(t.description), kw) }

\* the MissingField recommendations of the list for the category of a record
CategoryRecs(t) ==
    { r \in RecsOf(recommendations) :
        /\ r.type = MissingField
        /\ r.affectedField = "expenseType"
        /\ r.transactionIds = <<t.id>> }

\* what C15 says of a record without a category, given whether it has a history
CategoryResolution(t, hasHistory) ==
    IF hasHistory
    THEN \E r \in CategoryRecs(t) :
             /\ CategoryRecs(t) = {r}
             /\ r.suggestedValue \in MostFrequentCategories(t)
             /\ FracEq(r.confidence, Frac(65, 100))
    ELSE IF MatchingKeywordRules(t) # {}
    THEN \E r \in CategoryRecs(t) :
             /\ CategoryRecs(t) = {r}
             /\ r.suggestedValue =
                    KEYWORD_RULES[CHOOSE k \in MatchingKeywordRules(t) :
                        \A h \in MatchingKeywordRules(t) : k =< h].type
             /\ FracEq(r.confidence, Frac(80, 100))
    ELSE CategoryRecs(t) = {}

\* C15 as stated: missing category resolution prefers history over keywords.  In
\* the output of suggestMissingFieldRecommendations, for every active record
\* with an empty expenseType: if a non-deleted record with the same lowercased
\* counterparty has a category, there is one expenseType recommendation, with a
\* most frequent such category and confidence 0.65; otherwise, if a keyword
\* rule matches, one with the category of the first matching rule and confidence
\* 0.8; otherwise none.
C15_HistoryOverKeywords ==
    lastAction.name = "suggestMissingFieldRecommendations" =>
        \A t \in Range(ActiveTransactions) :
            t.expenseType = Empty
            => CategoryResolution(t, CategoryHistory(t) # {})

\* C15 amended: the same, the history being that of a counterparty that is not
\* empty; a record with an empty counterparty has no history.
C15_HistoryOfNamedOverKeywords ==
    lastAction.name = "suggestMissingFieldRecommendations" =>
        \A t \in Range(ActiveTransactions) :
            t.expenseType = Empty
            => CategoryResolution(t, t.paidTo # Empty /\ CategoryHistory(t) # {})

\* suggestMissingFieldRecommendations has run on a record without a category
\* that a keyword rule matches and whose counterparty has a history of another
\* category: the recommendation is the historical one
C15_Witness ==
    /\ lastAction.name = "suggestMissingFieldRecommendations"
    /\ \E t \in Range(ActiveTransactions) : \E r \in CategoryRecs(t) :
           /\ t.expenseType = Empty
           /\ t.paidTo # Empty
           /\ MatchingKeywordRules(t) # {}
           /\ r.suggestedValue \in MostFrequentCategories(t)
           /\ \A k \in MatchingKeywordRules(t) : KEYWORD_RULES[k].type # r.suggestedValue
           /\ FracEq(r.confidence, Frac(65, 100))

DistinctIds(list) ==
    \A i \in 1..Len(list) : \A j \in 1..Len(list) : list[i].id = list[j].id => i = j

\* C17: pending ids are stable across passes.  After a call of
\* generateRecommendations with a previous list of distinct ids: for every
\* pending recommendation P of the previous list and every candidate of the rules
\* with the identity of P, that identity not being applied or ignored in the
\* previous list, the output holds one recommendation of that identity, pending,
\* with the id of P and with the suggestedValue, confidence, description and
\* originalValue of the candidate.
C17_PendingIdStable ==
    (lastAction.name = "generateRecommendations" /\ DistinctIds(previousRecommendations)) =>
        \A P \in RecsOf(previousRecommendations) :
        \A c \in RecsOf(CandidateRecsFromRules(transactions)) :
            (/\ P.status = "pending"
             /\ getRecommendationIdentity(c) = getRecommendationIdentity(P)
             /\ \A r \in RecsOf(previousRecommendations) :
                    IsTerminal(r)
                    => getRecommendationIdentity(r) # getRecommendationIdentity(P))
            => \E q \in RecsOf(recommendations) :
                   /\ q.id = P.id
                   /\ q.status = "pending"
                   /\ q.suggestedValue = c.suggestedValue
                   /\ q.confidence = c.confidence
                   /\ q.description = c.description
                   /\ q.originalValue = c.originalValue
                   /\ \A o \in RecsOf(recommendations) :
                          getRecommendationIdentity(o) = getRecommendationIdentity(P)
                          => o = q

\* C18: the output of generateRecommendations never holds two recommendations
\* with the same id; and when the previous list holds an applied or ignored
\* entry and a pending entry with the same id, the entry of the output with that
\* id is the applied or ignored one.
C18_UniqueIds ==
    lastAction.name = "generateRecommendations" =>
        /\ DistinctIds(recommendations)
        /\ \A T \in RecsOf(previousRecommendations) :
           \A P \in RecsOf(previousRecommendations) :
               (IsTerminal(T) /\ P.status = "pending" /\ P.id = T.id)
               => \E q \in RecsOf(recommendations) :
                      /\ q.id = T.id
                      /\ q.status = T.status
                      /\ q.type = T.type
                      /\ q.transactionIds = T.transactionIds
                      /\ q.affectedField = T.affectedField
                      /\ q.suggestedValue = T.suggestedValue

\* generateRecommendations has run on a previous list with an applied or ignored
\* entry and a pending entry of the same id, the rules proposing the pending one
\* again: both would be in the output
C18_Witness ==
    /\ lastAction.name = "generateRecommendations"
    /\ \E T \in RecsOf(previousRecommendations) :
       \E P \in RecsOf(previousRecommendations) :
       \E c \in RecsOf(CandidateRecsFromRules(transactions)) :
           /\ IsTerminal(T) /\ P.status = "pending" /\ P.id = T.id
           /\ getRecommendationIdentity(c) = getRecommendationIdentity(P)
           /\ getRecommendationIdentity(c) # getRecommendationIdentity(T)
           /\ \E q \in RecsOf(recommendations) : q.id = T.id /\ IsTerminal(q)

\* a record has a history of (category, subcategory) under its counterparty
HasCategoryPairHistory(t) ==
    /\ t.paidTo # Empty
    /\ \E u \in Range(transactions) :
           /\ ~u.flags.isDeleted
           /\ toLowerCase(u.paidTo) = toLowerCase(t.paidTo)
           /\ u.expenseType # Empty /\ u.expenseSubtype # Empty

\* C19: competing Classification suggestions are not eliminated.  After a call
\* of generateRecommendations with a previous list in which nothing is applied or
\* ignored: for every active record with empty expenseType and expenseSubtype
\* that a keyword rule matches and whose counterparty has a (category,
\* subcategory) history, and for each of the two fields, the output holds a
\* pending keyword-based and a pending history-based Classification
\* recommendation for that field of that record.
C19_CompetingKept ==
    (/\ lastAction.name = "generateRecommendations"
     /\ \A r \in RecsOf(previousRecommendations) : r.status = "pending") =>
        \A t \in Range(ActiveTransactions) :
            (/\ t.expenseType = Empty /\ t.expenseSubtype = Empty
             /\ MatchingKeywordRules(t) # {}
             /\ HasCategoryPairHistory(t))
            => \A field \in {"expenseType", "expenseSubtype"} :
               \A kinds \in { {"type by keyword", "subtype and type by keyword"},
                              {"type by history", "subtype by history"} } :
                   \E r \in RecsOf(recommendations) :
                       /\ r.type = Classification
                       /\ r.status = "pending"
                       /\ r.transactionIds = <<t.id>>
                       /\ r.affectedField = field
                       /\ r.description.kind \in kinds

\* C20: Duplicate confidence for exact matches.  In the output of
\* findDuplicateRecommendations, for every two active records with the same
\* dateOfPayment and amountPaid, equal paidTo and equal description, there is a
\* Duplicate recommendation for the pair with confidence 1.0.
C20_ExactMatchConfidence ==
    lastAction.name = "findDuplicateRecommendations" =>
        \A t \in Range(ActiveTransactions) : \A u \in Range(ActiveTransactions) :
            (/\ t.id < u.id
             /\ t.dateOfPayment = u.dateOfPayment /\ t.amountPaid = u.amountPaid
             /\ t.paidTo = u.paidTo /\ t.description = u.description)
            => \E r \in RecsOf(recommendations) :
                   /\ r.type = Duplicate
                   /\ r.transactionIds = <<t.id, u.id>>
                   /\ FracEq(r.confidence, Frac(1, 1))

\* C21: Duplicate pairing.  In the output of findDuplicateRecommendations no two
\* recommendations are for the same unordered pair of records, and every
\* recommendation is for two different records that are not deleted, have the
\* same dateOfPayment and the same amountPaid rounded to cents, its
\* transactionIds being the two ids in sorted order.
C21_DuplicatePairing ==
    lastAction.name = "findDuplicateRecommendations" =>
        /\ \A i \in 1..Len(recommendations) : \A j \in 1..Len(recommendations) :
               Range(recommendations[i].transactionIds)
                   = Range(recommendations[j].transactionIds) => i = j
        /\ \A r \in RecsOf(recommendations) :
               \E t \in Range(transactions) : \E u \in Range(transactions) :
                   /\ t.id < u.id
                   /\ r.transactionIds = <<t.id, u.id>>
                   /\ ~t.flags.isDeleted /\ ~u.flags.isDeleted
                   /\ t.dateOfPayment = u.dateOfPayment
                   /\ (t.amountPaid + 5) \div 10 = (u.amountPaid + 5) \div 10

\* findDuplicateRecommendations has paired two records whose amounts differ
\* below the cent, next to a deleted record of the same date and amount
C21_Witness ==
    /\ lastAction.name = "findDuplicateRecommendations"
    /\ \E r \in RecsOf(recommendations) :
       \E t \in Range(transactions) : \E u \in Range(transactions) :
       \E d \in Range(transactions) :
           /\ r.transactionIds = <<t.id, u.id>>
           /\ t.amountPaid # u.amountPaid
           /\ d.flags.isDeleted
           /\ d.dateOfPayment = t.dateOfPayment /\ d.amountPaid = t.amountPaid

C23_TargetCardinality ==
    lastAction.pass =>
        \A r \in RecsOf(recommendations) :
            r.status = "pending" =>
                IF r.type = Duplicate
                THEN /\ Len(r.transactionIds) = 2
                     /\ r.transactionIds[1] < r.transactionIds[2]
                ELSE Len(r.transactionIds) = 1

\* a pass has run on records whose ids are not in ascending order and on a list
\* that held a decided recommendation, and its output holds a pending Duplicate
\* recommendation and a pending recommendation of another type
C23_Witness ==
    /\ lastAction.pass
    /\ Len(transactions) = 2 /\ transactions[1].id > transactions[2].id
    /\ \E r \in RecsOf(previousRecommendations) : IsTerminal(r)
    /\ \E q \in RecsOf(recommendations) : q.status = "pending" /\ q.type = Duplicate
    /\ \E q \in RecsOf(recommendations) : q.status = "pending" /\ q.type # Duplicate

\* C24: reconciliation never makes a decision for the user.  After every pass
\* whose previous list has distinct ids, every recommendation of the output whose
\* id is not in the previous list is pending, and every recommendation whose id
\* is in the previous list has the status it had there.
C24_NoDecisionByPass ==
    (lastAction.pass /\ DistinctIds(previousRecommendations)) =>
        \A q \in RecsOf(recommendations) :
            IF \E r \in RecsOf(previousRecommendations) : r.id = q.id
            THEN \A r \in RecsOf(previousRecommendations) :
                     r.id = q.id => q.status = r.status
            ELSE q.status = "pending"

\* a pass has run whose output holds a recommendation with a new id, a pending
\* one with the id it had in the previous list, an applied one and an ignored one
C24_Witness ==
    /\ lastAction.pass
    /\ DistinctIds(previousRecommendations)
    /\ \E q \in RecsOf(recommendations) :
           \A r \in RecsOf(previousRecommendations) : r.id # q.id
    /\ \E q \in RecsOf(recommendations) : \E r \in RecsOf(previousRecommendations) :
           r.id = q.id /\ r.status = "pending"
    /\ \E q \in RecsOf(recommendations) : \E r \in RecsOf(previousRecommendations) :
           r.id = q.id /\ r.status = "applied"
    /\ \E q \in RecsOf(recommendations) : \E r \in RecsOf(previousRecommendations) :
           r.id = q.id /\ r.status = "ignored"

\* the pending recommendations a handler called with the ids acts on
ActedOn(ids) ==
    { r \in RecsOf(recommendations) : r.id \in Range(ids) /\ r.status = "pending" }

\* the fields of a record that the recommendations acted on are for
AffectedFields(t, ids) ==
    { r.affectedField : r \in { a \in ActedOn(ids) : t.id \in Range(a.transactionIds) } }

\* C25: the frame of the user actions.  applyRecommendation and
\* applyMultipleRecommendations keep the record list's length and order, leave
\* every record that is no target of an acted-on recommendation as it is, and on
\* a target change nothing but the affected field, its originalValues entry and
\* the flags; ignoreRecommendation and ignoreMultipleRecommendations leave the
\* records as they are and change only the status of the named recommendations.
C25_Frame ==
    [][/\ lastAction'.name \in {"applyRecommendation", "applyMultipleRecommendations"} =>
           /\ Len(transactions') = Len(transactions)
           /\ \A i \in 1..Len(transactions) :
                  LET t == transactions[i]
                      u == transactions'[i]
                      fields == AffectedFields(t, lastAction'.ids)
                  IN  /\ fields = {} /\ (\A a \in ActedOn(lastAction'.ids) :
                                             t.id \notin Range(a.transactionIds))
                          => u = t
                      /\ u.id = t.id /\ u.rowNum = t.rowNum
                      /\ u.dateOfPayment = t.dateOfPayment
                      /\ u.amountPaid = t.amountPaid
                      /\ u.description = t.description
                      /\ "paidTo" \notin fields =>
                             /\ u.paidTo = t.paidTo
                             /\ u.originalValues.paidTo = t.originalValues.paidTo
                      /\ "expenseType" \notin fields =>
                             /\ u.expenseType = t.expenseType
                             /\ u.originalValues.expenseType = t.originalValues.expenseType
                      /\ "expenseSubtype" \notin fields =>
                             /\ u.expenseSubtype = t.expenseSubtype
                             /\ u.originalValues.expenseSubtype
                                    = t.originalValues.expenseSubtype
                      /\ "transactionType" \notin fields =>
                             /\ u.transactionType = t.transactionType
                             /\ u.originalValues.transactionType
                                    = t.originalValues.transactionType
       /\ lastAction'.name \in {"ignoreRecommendation", "ignoreMultipleRecommendations"} =>
           /\ transactions' = transactions
           /\ Len(recommendations') = Len(recommendations)
           /\ \A k \in 1..Len(recommendations) :
                  recommendations'[k] =
                      IF recommendations[k].id \in Range(lastAction'.ids)
                      THEN [recommendations[k] EXCEPT !.status = "ignored"]
                      ELSE recommendations[k]]_vars

\* applyMultipleRecommendations has changed the paidTo of some records of three
\* and left one untouched, after a recommendation was ignored
C25_Witness ==
    /\ lastAction.name = "applyMultipleRecommendations"
    /\ Len(transactions) = 3
    /\ \E t \in Range(transactions) : t.flags.merchantNormalized
    /\ \E t \in Range(transactions) :
           t.originalValues = NoOriginalValues /\ t.flags = NoFlags
    /\ \E r \in RecsOf(recommendations) : r.status = "ignored"

\* C26: no two pending recommendations of the output of one reconciliation pass
\* have the same identity tuple, for every list of candidates the rules emit and
\* every previous list.
C26_PendingIdentitiesDistinct ==
    lastAction.pass =>
        \A i \in 1..Len(recommendations) : \A j \in 1..Len(recommendations) :
            (/\ recommendations[i].status = "pending"
             /\ recommendations[j].status = "pending"
             /\ getRecommendationIdentity(recommendations[i])
                    = getRecommendationIdentity(recommendations[j]))
            => i = j

\* generateRecommendations has run on records for which the rules emit two
\* candidates of one identity, that identity not decided in the previous list,
\* and the output holds a pending recommendation of that identity
C26_Witness ==
    /\ lastAction.name = "generateRecommendations"
    /\ LET cs == CandidateRecsFromRules(transactions)
       IN  \E m \in 1..Len(cs) : \E n \in 1..Len(cs) :
               /\ m < n
               /\ getRecommendationIdentity(cs[m]) = getRecommendationIdentity(cs[n])
               /\ \E q \in RecsOf(recommendations) :
                      /\ q.status = "pending"
                      /\ getRecommendationIdentity(q) = getRecommendationIdentity(cs[m])

SameTarget(T, c) ==
    /\ IsTerminal(T)
    /\ T.type # Duplicate /\ c.type # Duplicate
    /\ Len(T.transactionIds) = 1
    /\ Range(T.transactionIds) \subseteq ExistingTransactionIds
    /\ c.transactionIds = T.transactionIds
    /\ c.affectedField = T.affectedField
    /\ c.originalValue = T.originalValue

\* no pending recommendation of the list has the type, record, field and
\* originalValue of a candidate
Discarded(c) ==
    \A q \in RecsOf(recommendations) :
        q.status = "pending"
        => getRecommendationIdentity(q) # getRecommendationIdentity(c)

C29_AnnotatedOnce ==
    /\ \A r \in RecsOf(recommendations) : r.description.targetsDeleted =< 1
    /\ lastAction.pass =>
           \A r \in RecsOf(previousRecommendations) :
               (IsTerminal(r) /\ r.transactionIds = <<>>)
               => \E q \in RecsOf(recommendations) :
                      /\ q.id = r.id
                      /\ q.description = r.description
                      /\ q.transactionIds = <<>>

\* a pass has run on a previous list with a decided recommendation that an
\* earlier pass had annotated, its targets being gone
C29_Witness ==
    /\ lastAction.pass
    /\ \E r \in RecsOf(previousRecommendations) :
           /\ IsTerminal(r)
           /\ r.transactionIds = <<>>
           /\ r.description.targetsDeleted = 1
           /\ \E q \in RecsOf(recommendations) :
                  q.id = r.id /\ q.description.targetsDeleted = 1

\* C30: merchant clustering never chains.  In the output of
\* normalizeMerchantRecommendations no name is the suggestedValue of one
\* recommendation and the originalValue of another, every suggestedValue is its
\* own canonical in canonicalMap, and no record is the target of two
\* recommendations.
C30_NoChains ==
    lastAction.name = "normalizeMerchantRecommendations" =>
        LET canonicalMap == CanonicalMap(ActiveTransactions)
        IN  /\ \A r \in RecsOf(recommendations) : \A q \in RecsOf(recommendations) :
                   r.suggestedValue # q.originalValue
            /\ \A r \in RecsOf(recommendations) :
                   /\ MapHas(canonicalMap, r.suggestedValue)
                   /\ MapGet(canonicalMap, r.suggestedValue) = r.suggestedValue
            /\ \A i \in 1..Len(recommendations) : \A j \in 1..Len(recommendations) :
                   (Range(recommendations[i].transactionIds)
                        \cap Range(recommendations[j].transactionIds) # {}) => i = j

\* normalizeMerchantRecommendations has run on records with a name similar to the
\* originalValue of a recommendation and not to its suggestedValue
C30_Witness ==
    /\ lastAction.name = "normalizeMerchantRecommendations"
    /\ \E r \in RecsOf(recommendations) : \E t \in Range(ActiveTransactions) :
           /\ trim(t.paidTo) # r.originalValue
           /\ areStringsSimilar(trim(t.paidTo), r.originalValue, Frac(8, 10))
           /\ ~areStringsSimilar(trim(t.paidTo), r.suggestedValue, Frac(8, 10))

====
